---------------------------- MODULE Spec2Model ----------------------------
(***************************************************************************)
(* Model of the English-learning mini-games of angilam-v1.0:               *)
(*   GD  client/pages/GrammarDetective.tsx  (multi-passage, phrase groups) *)
(*   P0  unnamed/part_000                   (multi-passage, error spans)   *)
(*   P1  unnamed/part_001                   (single passage, token spans)  *)
(*   the word-rack validators of unnamed/part_003 .. part_006.             *)
(*                                                                         *)
(* A string is a sequence of characters, a character a one-element TLA+    *)
(* string; the characters outside ASCII are written by their code point    *)
(* ("U+2019").  Token indices are 0-based as in the source, so the token   *)
(* the source calls tokens[i] is tokens[i + 1] here.                       *)
(***************************************************************************)
EXTENDS Integers, Sequences, FiniteSets, TLC

VARIABLES
    \* ---- phrase locator, run on bounded inputs
    lText,          \* the passage text
    lCorrections,   \* the ordered mistake definitions [wrong, right]
    lGroups,        \* findGroups' result (GrammarDetective.tsx)
    lErrors,        \* initGame's mapped spans (part_000)
    lDone,          \* which of the two locators have run
    \* ---- word-rack validators, run on bounded inputs
    rWord,          \* the candidate word
    rRack,          \* the rack
    rVerdict,       \* the verdict of each implementation
    rDone,          \* whether the validators have run
    \* ---- a grammar-correction game (GD, P0 or P1)
    variant,        \* which of the three components is mounted
    passageIndex,   \* GD, P0: passageIndex
    tokens,         \* the tokens of the passage shown
    groups,         \* GD: the memoized findGroups result
    statuses,       \* GD, P1: statuses, keyed by group id / token index
    edits,          \* GD, P1: edits, keyed like statuses
    errors,         \* P0: errors (the spans, with status and lastAttempt)
    inputValue,     \* P0: inputValue
    editingId,      \* GD, P0: editingId; P1: editing
    score,
    secondsLeft,    \* GD, P1: secondsLeft; P0: timeLeft
    ended,          \* GD, P1: ended; P0: gameOver
    wrongSubmissions, \* history: non-empty submissions the game rejected this round
    retriedFrom,    \* history: the passage index the Retry just pressed replaced, else NoId
    \* ---- a WordBattles game (part_003 with the bot, part_004, part_005, part_006)
    bVariant,       \* which of the four components is mounted
    bRack,          \* rack
    bInput,         \* input / playerInput
    bScore,         \* score / playerScore
    bFound,         \* found / used / playerWords, newest first
    bMsg,           \* msg / invalidMsg / message / feedback
    bTimeLeft,      \* timeLeft
    bOver,          \* over
    botScore,       \* part_003: botScore
    botWords,       \* part_003: botWords, newest first
    extendedDict,   \* part_005: the state of the dictionary fetch and its result
    attemptLog,     \* part_005: attemptLog
    bTimeouts,      \* the pending setTimeout callbacks that clear the feedback, oldest first
    \* ---- SurvivalMode (part_002)
    sMounted,       \* whether the component is mounted
    sIndex,         \* index
    sScore,         \* score
    sTimeLeft,      \* timeLeft
    sGameOver,      \* gameOver
    sFlash,         \* flash
    sBest,          \* best
    sStored,        \* localStorage["survivalModeHighScore"]
    sClosure,       \* the score and best the live interval's triggerGameOver closes over
    sTimeouts,      \* the pending setTimeout callbacks that clear the flash, oldest first
    sKnownMax,      \* history: the larger of the value read at the start and every final score
    \* ---- JumbledWords.tsx
    jMounted,       \* whether the component is mounted
    jOrder,         \* order
    jIdx,           \* idx
    jScore,         \* score
    jInput,         \* input
    jTimeLeft,      \* timeLeft
    jGameOver,      \* gameOver
    \* ---- the countdown effect of every game, with its intervals made explicit
    cGame,          \* which game's timer effect runs
    cMounted,       \* whether the component is mounted
    cTime,          \* the remaining time
    cOver,          \* the terminal flag
    cIndex,         \* SurvivalMode: index
    cLive,          \* the ids of the intervals that setInterval made and nobody cleared
    cEffectId,      \* the id the last run of the effect holds (0: it returned early)
    cNextId,        \* the id the next setInterval returns
    cReady,         \* the live intervals whose second has elapsed
    cDrops,         \* history: how often the time was decremented within the current second
    \* ---- VirtualTutor.tsx (second version)
    tMounted,       \* whether the component is mounted
    tScript,        \* the injected D-ID script: "loading", "loaded" or "failed"
    tAgent,         \* whether window.didAgent is defined
    tReady,         \* isAgentReady
    tPolling,       \* whether the readiness poll's interval is live
    tAttempts,      \* attempts, the poll's counter
    tConversing,    \* isConversing
    tListening,     \* listening
    tInput,         \* input
    tMessages,      \* messages, as the sequence of their roles
    tToasts,        \* the titles of the toasts shown
    tPending,       \* the widget calls awaited, each with what its caller does afterwards
    tSinceReset,    \* history: Reset was pressed and the user has done nothing since
    sCorrect,       \* history: the correct selections of this round
    sWrong,         \* history: a wrong option has been selected this round
    sElapsed,       \* history: the ticks on the current question
    jSolved,        \* history: the words solved this round
    jWrong,         \* history: the non-empty wrong guesses of this round
    jShown,         \* history: the answers of the words presented this round, in order
    botTimer,       \* part_003: the one-second ticks the bot's current interval has seen
    botIdle,        \* history: the ticks since the round began or the bot last played
    tCalls,         \* history: the widget calls made, each with isAgentReady at the call
    \* ---- the pure functions, applied to bounded arguments
    uIn,            \* the arguments drawn
    uOut            \* the results so far, by the name of the function applied

varsLoc == <<lText, lCorrections, lGroups, lErrors, lDone>>

varsRack == <<rWord, rRack, rVerdict, rDone>>

varsGame == <<variant, passageIndex, tokens, groups, statuses, edits, errors,
              inputValue, editingId, score, secondsLeft, ended, wrongSubmissions,
              retriedFrom>>

varsWords == <<bVariant, bRack, bInput, bScore, bFound, bMsg, bTimeLeft, bOver,
               botScore, botWords, extendedDict, attemptLog, bTimeouts>>

varsBattle == <<varsWords, botTimer, botIdle>>

varsSurvival == <<sMounted, sIndex, sScore, sTimeLeft, sGameOver, sFlash, sBest, sStored,
                  sClosure, sTimeouts, sKnownMax, sCorrect, sWrong, sElapsed>>

varsPlay == <<jMounted, jOrder, jIdx, jScore, jInput, jTimeLeft, jGameOver>>

varsJumble == <<varsPlay, jSolved, jWrong, jShown>>

varsCountdown == <<cGame, cMounted, cTime, cOver, cIndex, cLive, cEffectId, cNextId,
                   cReady, cDrops>>

varsTutor == <<tMounted, tScript, tAgent, tReady, tPolling, tAttempts, tConversing,
               tListening, tInput, tMessages, tToasts, tCalls, tPending, tSinceReset>>

\* the components other than the locators, the validators and the grammar games
varsArcade == <<varsBattle, varsSurvival, varsJumble, varsCountdown, varsTutor>>

varsPure == <<uIn, uOut>>

vars == <<varsPure, varsLoc, varsRack, varsGame, varsArcade>>

\* no pure function is under test
PureIdle ==
    /\ uIn = <<>>
    /\ uOut = <<>>

---------------------------------------------------------------------------
(* Components that are not mounted *)

BattleIdle ==
    /\ bVariant = "none"
    /\ bRack = <<>>
    /\ bInput = <<>>
    /\ bScore = 0
    /\ bFound = <<>>
    /\ bMsg = ""
    /\ bTimeLeft = 0
    /\ bOver = FALSE
    /\ botScore = 0
    /\ botWords = <<>>
    /\ extendedDict = "none"
    /\ attemptLog = <<>>
    /\ bTimeouts = <<>>
    /\ botTimer = 0
    /\ botIdle = 0

\* localStorage.getItem returns null: no item stored
NoItem == [has |-> FALSE, value |-> <<>>]

SurvivalIdle ==
    /\ sMounted = FALSE
    /\ sIndex = 0
    /\ sScore = 0
    /\ sTimeLeft = 0
    /\ sGameOver = FALSE
    /\ sFlash = FALSE
    /\ sBest = 0
    /\ sStored = NoItem
    /\ sClosure = [score |-> 0, best |-> 0]
    /\ sTimeouts = <<>>
    /\ sKnownMax = 0
    /\ sCorrect = 0
    /\ sWrong = FALSE
    /\ sElapsed = 0

JumbleIdle ==
    /\ jMounted = FALSE
    /\ jOrder = <<>>
    /\ jIdx = 0
    /\ jScore = 0
    /\ jInput = <<>>
    /\ jTimeLeft = 0
    /\ jGameOver = FALSE
    /\ jSolved = 0
    /\ jWrong = 0
    /\ jShown = <<>>

CountdownIdle ==
    /\ cGame = "none"
    /\ cMounted = FALSE
    /\ cTime = 0
    /\ cOver = FALSE
    /\ cIndex = 0
    /\ cLive = {}
    /\ cEffectId = 0
    /\ cNextId = 1
    /\ cReady = {}
    /\ cDrops = 0

TutorIdle ==
    /\ tMounted = FALSE
    /\ tScript = "none"
    /\ tAgent = FALSE
    /\ tReady = FALSE
    /\ tPolling = FALSE
    /\ tAttempts = 0
    /\ tConversing = FALSE
    /\ tListening = FALSE
    /\ tInput = <<>>
    /\ tMessages = <<>>
    /\ tToasts = {}
    /\ tCalls = {}
    /\ tPending = <<>>
    /\ tSinceReset = FALSE

ArcadeIdle == BattleIdle /\ SurvivalIdle /\ JumbleIdle /\ CountdownIdle /\ TutorIdle

---------------------------------------------------------------------------
(* JavaScript string primitives the games use *)

WS == {" ", "\t"}

UPPER == <<"A","B","C","D","E","F","G","H","I","J","K","L","M",
           "N","O","P","Q","R","S","T","U","V","W","X","Y","Z">>
LOWER == <<"a","b","c","d","e","f","g","h","i","j","k","l","m",
           "n","o","p","q","r","s","t","u","v","w","x","y","z">>

LowerOf == [c \in {UPPER[i] : i \in 1..26} |-> LOWER[CHOOSE i \in 1..26 : UPPER[i] = c]]
UpperOf == [c \in {LOWER[i] : i \in 1..26} |-> UPPER[CHOOSE i \in 1..26 : LOWER[i] = c]]

toLowerChar(c) == IF c \in DOMAIN LowerOf THEN LowerOf[c] ELSE c

toLowerCase(s) == [i \in 1..Len(s) |-> toLowerChar(s[i])]

RECURSIVE trimStart(_)
trimStart(s) ==
    IF s # <<>> /\ Head(s) \in WS THEN trimStart(Tail(s)) ELSE s

RECURSIVE trimEnd(_)
trimEnd(s) ==
    IF s # <<>> /\ s[Len(s)] \in WS THEN trimEnd(SubSeq(s, 1, Len(s) - 1)) ELSE s

trim(s) == trimEnd(trimStart(s))

\* s.replace(/\s+/g, " ")
RECURSIVE collapseWs(_)
collapseWs(s) ==
    IF \A i \in 1..Len(s) : s[i] \notin WS THEN s
    ELSE LET k == CHOOSE i \in 1..Len(s) :
                      s[i] \in WS /\ \A j \in 1..(i - 1) : s[j] \notin WS
         IN  SubSeq(s, 1, k - 1) \o <<" ">>
                 \o collapseWs(trimStart(SubSeq(s, k + 1, Len(s))))

\* s.split(" "): one piece per single space, empty pieces kept
RECURSIVE splitSpace(_)
splitSpace(s) ==
    IF \A i \in 1..Len(s) : s[i] # " " THEN <<s>>
    ELSE LET k == CHOOSE i \in 1..Len(s) :
                      s[i] = " " /\ \A j \in 1..(i - 1) : s[j] # " "
         IN  <<SubSeq(s, 1, k - 1)>> \o splitSpace(SubSeq(s, k + 1, Len(s)))

\* s.split(/\s+/g): one piece per maximal whitespace run
splitWs(s) == splitSpace(collapseWs(s))

\* words.join(" ")
RECURSIVE join(_)
join(ws) ==
    IF ws = <<>> THEN <<>>
    ELSE IF Len(ws) = 1 THEN ws[1]
    ELSE ws[1] \o <<" ">> \o join(Tail(ws))

---------------------------------------------------------------------------
(* GrammarDetective.tsx: helpers, tokenizer and phrase locator *)

\* the token indices a span covers
SpanIndices(sp) == sp.start .. (sp.start + sp.length - 1)

\* a stripTrailingPunct that strips nothing
stripTrailingPunct_keepsAll(w) == w

stripTrailingPunct(w) ==
    IF w # <<>> /\ w[Len(w)] \in {".", ",", "!", "?"}
    THEN SubSeq(w, 1, Len(w) - 1)
    ELSE w

normalize(s) == toLowerCase(trim(collapseWs(s)))

tokenize(text) == splitSpace(text)

\* findRun: the lowest i whose window matches and whose FIRST token is unused
findRun(tks, used, wrongWords) ==
    LET n         == Len(wrongWords)
        wrongNorm == [k \in 1..n |-> normalize(wrongWords[k])]
        ok(i)     == \A k \in 0..(n - 1) :
                        normalize(stripTrailingPunct(tks[i + k + 1])) = wrongNorm[k + 1]
        hits      == {i \in 0..(Len(tks) - n) : ~used[i] /\ ok(i)}
    IN  IF hits = {} THEN -1
        ELSE CHOOSE i \in hits : \A j \in hits : i <= j

\* gs.sort((a, b) => a.start - b.start): stable insertion by start
RECURSIVE sortByStart(_)
sortByStart(gs) ==
    IF gs = <<>> THEN <<>>
    ELSE LET rest == sortByStart(SubSeq(gs, 1, Len(gs) - 1))
             g    == gs[Len(gs)]
             k    == Cardinality({i \in 1..Len(rest) : rest[i].start <= g.start})
         IN  SubSeq(rest, 1, k) \o <<g>> \o SubSeq(rest, k + 1, Len(rest))

\* corrections.forEach((corr, idx) => ...), from definition idx on
RECURSIVE findGroupsFrom(_, _, _, _, _)
findGroupsFrom(tks, corrections, idx, used, gs) ==
    IF idx >= Len(corrections) THEN gs
    ELSE LET corr       == corrections[idx + 1]
             wrongWords == splitSpace(corr.wrong)
             start      == findRun(tks, used, wrongWords)
         IN  IF start # -1
             THEN findGroupsFrom(tks, corrections, idx + 1,
                      [i \in DOMAIN used |->
                          used[i] \/ (start <= i /\ i < start + Len(wrongWords))],
                      Append(gs, [id |-> idx, start |-> start,
                                      length |-> Len(wrongWords), right |-> corr.right]))
             ELSE findGroupsFrom(tks, corrections, idx + 1, used, gs)

findGroups(tks, corrections) ==
    LET gs == findGroupsFrom(tks, corrections, 0,
                                 [i \in 0..(Len(tks) - 1) |-> FALSE], <<>>)
    IN  SelectSeq(sortByStart(gs), LAMBDA g : g.start >= 0)

---------------------------------------------------------------------------
(* part_000: normalizer, tokenizer and the locator inside initGame *)

normalizeToken(t) ==
    LET unified == [i \in 1..Len(t) |-> IF t[i] = "U+2019" THEN "'" ELSE t[i]]
        strip   == {".", ",", "!", "?", ";", ":", "(", ")", "[", "]", "{", "}",
                    "\"", "U+201C", "U+201D", "U+2018", "U+2019"}
    IN  toLowerCase(SelectSeq(unified, LAMBDA c : c \notin strip))

splitTokens(text) == splitWs(text)

\* p.mistakes.forEach((m) => ...), from mistake k on; ids stand for uid()
RECURSIVE mapMistakesFrom(_, _, _, _)
mapMistakesFrom(tks, ms, k, mapped) ==
    IF k > Len(ms) THEN mapped
    ELSE LET m                == ms[k]
             normalizedTokens == [i \in 1..Len(tks) |-> normalizeToken(tks[i])]
             parts            == splitWs(m.wrong)
             wrongParts       == [i \in 1..Len(parts) |-> normalizeToken(parts[i])]
             n                == Len(wrongParts)
             hits == {i \in 0..(Len(normalizedTokens) - n) :
                         SubSeq(normalizedTokens, i + 1, i + n) = wrongParts}
         IN  IF hits # {}
             THEN LET i == CHOOSE x \in hits : \A y \in hits : x <= y
                  IN  mapMistakesFrom(tks, ms, k + 1,
                          Append(mapped,
                                 [id |-> Len(mapped) + 1, start |-> i, length |-> n,
                                  wrongPhrase |-> join(SubSeq(tks, i + 1, i + n)),
                                  correct |-> m.right, status |-> "pending",
                                  lastAttempt |-> <<"undefined">>]))
             ELSE mapMistakesFrom(tks, ms, k + 1, mapped)

initGameSpans(text, ms) ==
    mapMistakesFrom(splitTokens(text), ms, 1, <<>>)

---------------------------------------------------------------------------
(* The locators on bounded inputs *)

MaxTokens == 3
MaxDefs == 2

Vocab == {<<"a">>, <<"b">>, <<"B", ".">>}

Phrases == {<<"a">>, <<"b">>, <<"a", " ", "b">>, <<"b", " ", "a">>}

SeqsUpTo(S, n) == UNION {[1..k -> S] : k \in 0..n}

LocOnly == UNCHANGED <<varsPure, varsRack, varsGame, varsArcade>>

LocIdle ==
    /\ lText = <<>>
    /\ lCorrections = <<>>
    /\ lGroups = <<>>
    /\ lErrors = <<>>
    /\ lDone = {}

\* the five passages of GrammarDetective.tsx, in full
Chars(str) == [i \in 1..Len(str) |-> SubSeq(str, i, i)]

Fix(wrong, right) == [wrong |-> Chars(wrong), right |-> Chars(right)]

BuiltInPassages == <<
    [text |-> Chars("She go to the market yesterday but forget to buy apples. The shop were ") \o
             Chars("very crowd. He don't like waiting, so he leave quickly."),
     corrections |-> << Fix("go", "went"),
                        Fix("forget", "forgot"),
                        Fix("were", "was"),
                        Fix("don't", "doesn't"),
                        Fix("leave", "left") >>],
    [text |-> Chars("The childrens is playing in the park when it start to rain. She runned ") \o
             Chars("home fastly. They was all wet."),
     corrections |-> << Fix("childrens", "children"),
                        Fix("is", "are"),
                        Fix("start", "started"),
                        Fix("runned", "ran"),
                        Fix("was", "were") >>],
    [text |-> Chars("I has a big dog who bark loud every night. He eat two bowl of food ") \o
             Chars("everyday. My parents doesn't likes the noise."),
     corrections |-> << Fix("has", "have"),
                        Fix("bark", "barks"),
                        Fix("eat", "eats"),
                        Fix("bowl", "bowls"),
                        Fix("doesn't likes", "don't like") >>],
    [text |-> Chars("Yesterday we seen a movie at the mall. The actor was very good but the ") \o
             Chars("scene was too much long. After the movie, we goes to dinner."),
     corrections |-> << Fix("seen", "saw"),
                        Fix("too much long", "too long"),
                        Fix("goes", "went") >>],
    [text |-> Chars("She are my best friend since five years. We enjoys playing football ") \o
             Chars("together. Sometime we goes shopping also."),
     corrections |-> << Fix("are", "has been"),
                        Fix("enjoys", "enjoy"),
                        Fix("Sometime", "Sometimes"),
                        Fix("goes", "go") >>] >>

\* part_000 has the same five passages, every apostrophe written U+2019
curly(s) == [i \in 1..Len(s) |-> IF s[i] = "'" THEN "U+2019" ELSE s[i]]

BuiltInPassages_0 ==
    [p \in 1..Len(BuiltInPassages) |->
        [text |-> curly(BuiltInPassages[p].text),
         mistakes |-> [k \in 1..Len(BuiltInPassages[p].corrections) |->
                          [wrong |-> curly(BuiltInPassages[p].corrections[k].wrong),
                           right |-> curly(BuiltInPassages[p].corrections[k].right)]]]]

\* what the locators are run on besides the bounded inputs: each game's passages
BuiltInInputs ==
    {<<BuiltInPassages[p].text, BuiltInPassages[p].corrections>> : p \in 1..Len(BuiltInPassages)}
        \cup {<<BuiltInPassages_0[p].text, BuiltInPassages_0[p].mistakes>> :
                  p \in 1..Len(BuiltInPassages_0)}

LocStart ==
    /\ \/ /\ lText \in {join(ws) : ws \in SeqsUpTo(Vocab, MaxTokens)}
          /\ lCorrections \in
                 SeqsUpTo({[wrong |-> p, right |-> <<"x">>] : p \in Phrases}, MaxDefs)
       \/ \E input \in BuiltInInputs :
              /\ lText = input[1]
              /\ lCorrections = input[2]
    /\ lGroups = <<>>
    /\ lErrors = <<>>
    /\ lDone = {}

RunFindGroups ==
    /\ "GD" \notin lDone
    /\ lGroups' = findGroups(tokenize(lText), lCorrections)
    /\ lDone' = lDone \cup {"GD"}
    /\ UNCHANGED <<lText, lCorrections, lErrors>>
    /\ LocOnly

RunInitGame ==
    /\ "P0" \notin lDone
    /\ lErrors' = initGameSpans(lText, lCorrections)
    /\ lDone' = lDone \cup {"P0"}
    /\ UNCHANGED <<lText, lCorrections, lGroups>>
    /\ LocOnly

LocNext == RunFindGroups \/ RunInitGame

---------------------------------------------------------------------------
(* part_003 .. part_006: the word-rack validators *)

\* for (const c of rack) counts[c] = (counts[c] || 0) + 1: keys are the
\* letters present only
tally(letters) ==
    [c \in {letters[i] : i \in 1..Len(letters)} |->
        Cardinality({i \in 1..Len(letters) : letters[i] = c})]

\* the variant of the loop below that forgets to take the letter out of the rack
RECURSIVE consume_noDecrement(_, _, _)
consume_noDecrement(word, i, counts) ==
    IF i > Len(word) THEN TRUE
    ELSE IF word[i] \notin DOMAIN counts \/ counts[word[i]] = 0 THEN FALSE
    ELSE consume_noDecrement(word, i + 1, counts)

\* for (const ch of word) { if (!counts[ch]) return false; counts[ch] -= 1; }
RECURSIVE consume(_, _, _)
consume(word, i, counts) ==
    IF i > Len(word) THEN TRUE
    ELSE IF word[i] \notin DOMAIN counts \/ counts[word[i]] = 0 THEN FALSE
    ELSE consume(word, i + 1, [counts EXCEPT ![word[i]] = @ - 1])

canFormWord(word, rack) == consume(word, 1, tally(rack))          \* part_003

canFormWord_4(word, rack) == consume(word, 1, tally(rack))        \* part_004

canFormWord_6(word, rack) == consume(word, 1, tally(rack))        \* part_006

countLetters(letters) == tally(letters)                           \* part_005

lettersFit(word, rack) ==
    LET rackCounts == countLetters(rack)
        wCounts    == countLetters(word)
    IN  \A ch \in DOMAIN wCounts :
            ~((IF ch \in DOMAIN rackCounts THEN rackCounts[ch] ELSE 0) < wCounts[ch])

---------------------------------------------------------------------------
(* The validators on bounded inputs *)

MaxWordLen == 3
MaxRackLen == 4

RackLetters == {"c", "a", "t"}

\* the rack and the candidates of the worked example
ExampleRack == <<"c", "a", "t", "t", "o">>
ExampleWords == {<<"c", "a", "t">>, <<"c", "a", "t", "t", "t">>}

RackOnly == UNCHANGED <<varsPure, varsLoc, varsGame, varsArcade>>

RackIdle ==
    /\ rWord = <<>>
    /\ rRack = <<>>
    /\ rVerdict = <<>>
    /\ rDone = FALSE

RackStart ==
    /\ \/ /\ rWord \in SeqsUpTo(RackLetters, MaxWordLen)
          /\ rRack \in SeqsUpTo(RackLetters, MaxRackLen)
       \/ /\ rWord \in ExampleWords
          /\ rRack = ExampleRack
    /\ rVerdict = <<>>
    /\ rDone = FALSE

Validate ==
    /\ ~rDone
    /\ rVerdict' = <<canFormWord(rWord, rRack), canFormWord_4(rWord, rRack),
                     lettersFit(rWord, rRack), canFormWord_6(rWord, rRack)>>
    /\ rDone' = TRUE
    /\ UNCHANGED <<rWord, rRack>>
    /\ RackOnly

RackNext == Validate

---------------------------------------------------------------------------
(* The grammar-correction games: content *)

NoId == -1                        \* null (no span is being edited)
Undefined == <<"undefined">>      \* an absent lastAttempt

\* The countdown of the three games is 180 s; the model runs it from RoundSeconds.
RoundSeconds == 3
INITIAL_SECONDS == RoundSeconds   \* GrammarDetective.tsx, part_001
TOTAL_TIME == RoundSeconds        \* part_000

\* At most MaxPenalties penalties are taken in a round (the score has no floor).
MaxPenalties == 2

\* GrammarDetective.tsx: the first sentence of the first passage with its two
\* corrections, the last sentence of the third with its one, and the last
\* sentence of the second with its one
PASSAGES == <<
    [text |-> <<"S","h","e"," ","g","o"," ","t","o"," ","t","h","e"," ","m","a","r","k","e","t"," ",
                "y","e","s","t","e","r","d","a","y"," ","b","u","t"," ","f","o","r","g","e","t"," ",
                "t","o"," ","b","u","y"," ","a","p","p","l","e","s",".">>,
     corrections |-> << [wrong |-> <<"g","o">>, right |-> <<"w","e","n","t">>],
                        [wrong |-> <<"f","o","r","g","e","t">>, right |-> <<"f","o","r","g","o","t">>] >>],
    [text |-> <<"M","y"," ","p","a","r","e","n","t","s"," ","d","o","e","s","n","'","t"," ",
                "l","i","k","e","s"," ","t","h","e"," ","n","o","i","s","e",".">>,
     corrections |-> << [wrong |-> <<"d","o","e","s","n","'","t"," ","l","i","k","e","s">>,
                         right |-> <<"d","o","n","'","t"," ","l","i","k","e">>] >>],
    [text |-> <<"T","h","e","y"," ","w","a","s"," ","a","l","l"," ","w","e","t",".">>,
     corrections |-> << [wrong |-> <<"w","a","s">>, right |-> <<"w","e","r","e">>] >>] >>

\* part_000: the same three excerpts, written there with U+2019 apostrophes
PASSAGES_0 == <<
    [text |-> PASSAGES[1].text,
     mistakes |-> PASSAGES[1].corrections],
    [text |-> <<"M","y"," ","p","a","r","e","n","t","s"," ","d","o","e","s","n","U+2019","t"," ",
                "l","i","k","e","s"," ","t","h","e"," ","n","o","i","s","e",".">>,
     mistakes |-> << [wrong |-> <<"d","o","e","s","n","U+2019","t"," ","l","i","k","e","s">>,
                      right |-> <<"d","o","n","U+2019","t"," ","l","i","k","e">>] >>],
    [text |-> PASSAGES[3].text,
     mistakes |-> PASSAGES[3].corrections] >>

\* part_001: the first sentence of RAW_PASSAGE and its two mistakes, by token index
RAW_PASSAGE ==
    <<"Y","e","s","t","e","r","d","a","y"," ","I"," ","g","o"," ","t","o"," ","t","h","e"," ",
      "m","a","r","k","e","t"," ","a","n","d"," ","b","u","y","e","d"," ","f","r","e","s","h"," ",
      "a","p","p","l","e","s",".">>

mistakes == (2 :> <<"w","e","n","t">>) @@ (7 :> <<"b","o","u","g","h","t">>)

---------------------------------------------------------------------------
(* The grammar-correction games: state helpers *)

Get(f, k, default) == IF k \in DOMAIN f THEN f[k] ELSE default

Put(f, k, v) == [x \in (DOMAIN f) \cup {k} |-> IF x = k THEN v ELSE f[x]]

groupById(gid) == groups[CHOOSE k \in 1..Len(groups) : groups[k].id = gid]

\* groupIdByToken: a Map filled group by group, later groups overwriting
groupIdByToken(tokenIndex) ==
    LET cover == {k \in 1..Len(groups) : tokenIndex \in SpanIndices(groups[k])}
    IN  IF cover = {} THEN NoId
        ELSE groups[CHOOSE k \in cover : \A j \in cover : j <= k].id

\* The rendering loop of GrammarDetective.tsx: "let i = 0; while (i < tokens.length)".
\* Every onClick closure it creates reads this one binding i when the click
\* happens, that is, the value i has when the loop has ended.
RECURSIVE renderLoopExit(_)
renderLoopExit(i) ==
    IF ~(i < Len(tokens)) THEN i
    ELSE IF groupIdByToken(i) # NoId
         THEN LET g == groupById(groupIdByToken(i))
              IN  renderLoopExit(g.start + g.length)
         ELSE renderLoopExit(i + 1)

pendingAll(ids) == [id \in ids |-> "pending"]

\* the state a round starts in
NewRound(v, p) ==
    IF v = "GD"
    THEN LET tks == tokenize(PASSAGES[p + 1].text)
             gs  == findGroups(tks, PASSAGES[p + 1].corrections)
         IN  [tokens |-> tks, groups |-> gs,
              statuses |-> pendingAll({gs[k].id : k \in 1..Len(gs)}),
              errors |-> <<>>]
    ELSE IF v = "P0"
    THEN [tokens |-> splitTokens(PASSAGES_0[p + 1].text), groups |-> <<>>,
          statuses |-> <<>>,
          errors |-> initGameSpans(PASSAGES_0[p + 1].text, PASSAGES_0[p + 1].mistakes)]
    ELSE [tokens |-> splitSpace(RAW_PASSAGE), groups |-> <<>>,
          statuses |-> pendingAll(DOMAIN mistakes), errors |-> <<>>]

\* how many passages a game has to choose from
PassageCount(v) ==
    IF v = "GD" THEN Len(PASSAGES) ELSE IF v = "P0" THEN Len(PASSAGES_0) ELSE 1

\* NewRound for every game and passage, computed once
RoundTable ==
    [v \in {"GD", "P0", "P1"} |-> [p \in 0..(PassageCount(v) - 1) |-> NewRound(v, p)]]

\* GD: the init effect / onReset; P0: initGame; P1: onReset
StartRound(p) ==
    LET r == RoundTable[variant][p]
    IN  /\ passageIndex' = p
        /\ tokens' = r.tokens
        /\ groups' = r.groups
        /\ statuses' = r.statuses
        /\ errors' = r.errors
        /\ edits' = <<>>
        /\ inputValue' = <<>>
        /\ editingId' = NoId
        /\ score' = 0
        /\ secondsLeft' = RoundSeconds
        /\ ended' = FALSE
        /\ wrongSubmissions' = 0
        /\ UNCHANGED variant

---------------------------------------------------------------------------
(* GrammarDetective.tsx: handlers *)

openEditorForToken(tokenIndex) ==
    /\ ~ended
    /\ groupIdByToken(tokenIndex) # NoId
    /\ LET gid == groupIdByToken(tokenIndex)
           g   == groupById(gid)
           rawPhrase == join([k \in 1..g.length |-> stripTrailingPunct(tokens[g.start + k])])
       IN  /\ Get(statuses, gid, "undefined") # "correct"
           /\ edits' = Put(edits, gid, rawPhrase)
           /\ editingId' = gid
    /\ UNCHANGED <<variant, passageIndex, tokens, groups, statuses, errors, inputValue,
                   score, secondsLeft, ended, wrongSubmissions>>

submitEdit(gid) ==
    LET attemptRaw == trim(Get(edits, gid, <<>>))
        answer     == groupById(gid).right
    IN  /\ attemptRaw # <<>>
        /\ IF normalize(attemptRaw) = normalize(answer)
           THEN /\ score' = IF Get(statuses, gid, "undefined") # "correct"
                            THEN score + 20 ELSE score
                /\ statuses' = Put(statuses, gid, "correct")
                /\ editingId' = NoId
                /\ UNCHANGED wrongSubmissions
           ELSE /\ score' = score - 5
                /\ statuses' = Put(statuses, gid, "wrong")
                /\ UNCHANGED editingId
                /\ wrongSubmissions' = wrongSubmissions + 1
        /\ UNCHANGED <<variant, passageIndex, tokens, groups, edits, errors, inputValue,
                       secondsLeft, ended>>

onSubmitGame ==
    /\ ended' = TRUE
    /\ editingId' = NoId
    /\ UNCHANGED <<variant, passageIndex, tokens, groups, statuses, edits, errors,
                   inputValue, score, secondsLeft, wrongSubmissions>>

onReset == StartRound(passageIndex)

\* a Retry whose random pick is taken as it comes, the current passage included
onRetryDifferent_anyPassage(random) == StartRound(random)

\* random is the value of Math.floor(Math.random() * PASSAGES.length)
onRetryDifferent(random) ==
    IF Len(PASSAGES) <= 1 THEN onReset
    ELSE LET next == IF random = passageIndex THEN (random + 1) % Len(PASSAGES) ELSE random
         IN  StartRound(next)

\* the interval callback of GrammarDetective.tsx and of part_001
timerTick ==
    /\ IF secondsLeft <= 1
       THEN /\ ended' = TRUE
            /\ editingId' = NoId
            /\ secondsLeft' = 0
       ELSE /\ secondsLeft' = secondsLeft - 1
            /\ UNCHANGED <<ended, editingId>>
    /\ UNCHANGED <<variant, passageIndex, tokens, groups, statuses, edits, errors,
                   inputValue, score, wrongSubmissions>>

---------------------------------------------------------------------------
(* part_000: handlers *)

errorIndex(errId) ==
    IF \E k \in 1..Len(errors) : errors[k].id = errId
    THEN CHOOSE k \in 1..Len(errors) :
             errors[k].id = errId /\ \A j \in 1..(k - 1) : errors[j].id # errId
    ELSE 0

\* the variant of startEditing below without the lock on corrected spans
startEditing_noLock(errId) ==
    /\ errorIndex(errId) # 0
    /\ LET e == errors[errorIndex(errId)]
       IN  /\ editingId' = errId
           /\ inputValue' = IF e.lastAttempt # Undefined THEN e.lastAttempt ELSE e.wrongPhrase
    /\ UNCHANGED <<variant, passageIndex, tokens, groups, statuses, edits, errors,
                   score, secondsLeft, ended, wrongSubmissions>>

startEditing(errId) ==
    /\ errorIndex(errId) # 0
    /\ LET e == errors[errorIndex(errId)]
       IN  /\ e.status # "correct"
           /\ editingId' = errId
           /\ inputValue' = IF e.lastAttempt # Undefined THEN e.lastAttempt ELSE e.wrongPhrase
    /\ UNCHANGED <<variant, passageIndex, tokens, groups, statuses, edits, errors,
                   score, secondsLeft, ended, wrongSubmissions>>

submitEdit_0 ==
    /\ editingId # NoId
    /\ errorIndex(editingId) # 0
    /\ LET idx         == errorIndex(editingId)
           e           == errors[idx]
           valNorm     == normalizeToken(trim(inputValue))
           correctNorm == normalizeToken(trim(e.correct))
       IN  IF valNorm = correctNorm
           THEN /\ errors' = [errors EXCEPT ![idx] =
                                 [e EXCEPT !.status = "correct", !.lastAttempt = inputValue]]
                /\ score' = score + 20
                /\ UNCHANGED wrongSubmissions
           ELSE /\ errors' = [errors EXCEPT ![idx] = [e EXCEPT !.lastAttempt = inputValue]]
                /\ score' = score - 5
                /\ wrongSubmissions' =
                       IF trim(inputValue) # <<>> THEN wrongSubmissions + 1 ELSE wrongSubmissions
    /\ editingId' = NoId
    /\ UNCHANGED <<variant, passageIndex, tokens, groups, statuses, edits, inputValue,
                   secondsLeft, ended>>

\* random is the value of Math.floor(Math.random() * choices.length)
handleRetry(random) ==
    LET choices == SelectSeq([k \in 1..Len(PASSAGES_0) |-> k - 1],
                             LAMBDA i : i # passageIndex)
    IN  IF Len(choices) = 0 THEN StartRound(passageIndex)
        ELSE /\ random < Len(choices)
             /\ StartRound(choices[random + 1])

timerTick_0 ==
    /\ IF secondsLeft <= 1
       THEN /\ ended' = TRUE
            /\ secondsLeft' = 0
       ELSE /\ secondsLeft' = secondsLeft - 1
            /\ UNCHANGED ended
    /\ UNCHANGED <<variant, passageIndex, tokens, groups, statuses, edits, errors,
                   inputValue, editingId, score, wrongSubmissions>>

---------------------------------------------------------------------------
(* part_001: handlers *)

stripPunctuation(w) == stripTrailingPunct(w)

onWordClick(index) ==
    /\ ~ended
    /\ index \in DOMAIN mistakes
    /\ Get(statuses, index, "undefined") # "correct"
    /\ editingId' = index
    /\ edits' = Put(edits, index, stripPunctuation(tokens[index + 1]))
    /\ UNCHANGED <<variant, passageIndex, tokens, groups, statuses, errors, inputValue,
                   score, secondsLeft, ended, wrongSubmissions>>

submitEdit_1(idx) ==
    LET attemptRaw == trim(Get(edits, idx, <<>>))
        attempt    == toLowerCase(attemptRaw)
        correct    == toLowerCase(mistakes[idx])
    IN  /\ attemptRaw # <<>>
        /\ IF attempt = correct
           THEN /\ score' = IF Get(statuses, idx, "undefined") # "correct"
                            THEN score + 20 ELSE score
                /\ statuses' = Put(statuses, idx, "correct")
                /\ editingId' = NoId
                /\ UNCHANGED wrongSubmissions
           ELSE /\ score' = score - 5
                /\ statuses' = Put(statuses, idx, "wrong")
                /\ UNCHANGED editingId
                /\ wrongSubmissions' = wrongSubmissions + 1
        /\ UNCHANGED <<variant, passageIndex, tokens, groups, edits, errors, inputValue,
                       secondsLeft, ended>>

\* the Close button of the results overlay: onClick={() => setEnded(false)}
closeResults ==
    /\ ended' = FALSE
    /\ UNCHANGED <<variant, passageIndex, tokens, groups, statuses, edits, errors,
                   inputValue, editingId, score, secondsLeft, wrongSubmissions>>

---------------------------------------------------------------------------
(* The grammar-correction games: events *)

SpanIds ==
    IF variant = "GD" THEN {groups[k].id : k \in 1..Len(groups)}
    ELSE IF variant = "P0" THEN {errors[k].id : k \in 1..Len(errors)}
    ELSE DOMAIN mistakes

RightOf(id) ==
    IF variant = "GD" THEN groupById(id).right
    ELSE IF variant = "P0" THEN errors[errorIndex(id)].correct
    ELSE mistakes[id]

\* part_000 renders, at token i, errors.find((e) => e.start === i)
Rendered_0(id) ==
    LET k == errorIndex(id)
    IN  /\ k # 0
        /\ \A j \in 1..(k - 1) : errors[j].start # errors[k].start

toUpperCase(s) == [i \in 1..Len(s) |-> IF s[i] \in DOMAIN UpperOf THEN UpperOf[s[i]] ELSE s[i]]

\* what the player may type into the input of a span whose answer is right
TypedTexts(right) ==
    {right, toUpperCase(right), right \o <<".">>, <<"n","o","p","e">>, <<>>, <<" ">>}

\* an event of a mounted grammar game, which touches no other component
GameFrame ==
    /\ variant # "none"
    /\ UNCHANGED <<varsPure, varsLoc, varsRack, varsArcade>>

\* such an event, other than Retry
GameOnly ==
    /\ GameFrame
    /\ retriedFrom' = NoId

Mounted ==
    /\ variant \in {"GD", "P0", "P1"}
    /\ passageIndex \in (IF variant = "P1" THEN {0} ELSE 0..(Len(PASSAGES) - 1))
    /\ LET r == NewRound(variant, passageIndex)
       IN  /\ tokens = r.tokens
           /\ groups = r.groups
           /\ statuses = r.statuses
           /\ errors = r.errors
    /\ edits = <<>>
    /\ inputValue = <<>>
    /\ editingId = NoId
    /\ score = 0
    /\ secondsLeft = RoundSeconds
    /\ ended = FALSE
    /\ wrongSubmissions = 0
    /\ retriedFrom = NoId

GameIdle ==
    /\ variant = "none"
    /\ passageIndex = 0
    /\ tokens = <<>>
    /\ groups = <<>>
    /\ statuses = <<>>
    /\ edits = <<>>
    /\ errors = <<>>
    /\ inputValue = <<>>
    /\ editingId = NoId
    /\ score = 0
    /\ secondsLeft = 0
    /\ ended = FALSE
    /\ wrongSubmissions = 0
    /\ retriedFrom = NoId

\* a click (or Enter / Space) on the span that is not being edited
ClickSpan ==
    \E id \in SpanIds :
        /\ GameOnly
        /\ editingId # id
        /\ IF variant = "GD" THEN openEditorForToken(renderLoopExit(0))
           ELSE IF variant = "P0" THEN Rendered_0(id) /\ startEditing(id)
           ELSE onWordClick(id)

\* onChange of the input of the span being edited
TypeText ==
    /\ GameOnly
    /\ editingId # NoId
    /\ \E txt \in TypedTexts(RightOf(editingId)) :
           IF variant = "P0"
           THEN /\ inputValue' = txt
                /\ UNCHANGED <<variant, passageIndex, tokens, groups, statuses, edits, errors,
                               editingId, score, secondsLeft, ended, wrongSubmissions>>
           ELSE /\ edits' = Put(edits, editingId, txt)
                /\ UNCHANGED <<variant, passageIndex, tokens, groups, statuses, errors,
                               inputValue, editingId, score, secondsLeft, ended,
                               wrongSubmissions>>

SubmitOpenEditor ==
    /\ GameOnly
    /\ editingId # NoId
    /\ score > -5 * MaxPenalties
    /\ IF variant = "GD" THEN submitEdit(editingId)
       ELSE IF variant = "P0" THEN submitEdit_0
       ELSE submitEdit_1(editingId)

\* onKeyDown with Enter in the input
PressEnter == SubmitOpenEditor

\* onBlur of the input
BlurInput == SubmitOpenEditor

\* the variant of PressEscape below in which the cancel key submits the input
PressEscape_asBlur == SubmitOpenEditor

\* onKeyDown with Escape in the input
PressEscape ==
    /\ GameOnly
    /\ editingId # NoId
    /\ editingId' = NoId
    /\ UNCHANGED <<variant, passageIndex, tokens, groups, statuses, edits, errors,
                   inputValue, score, secondsLeft, ended, wrongSubmissions>>

\* the one-second interval, live while the session is not terminal
Tick ==
    /\ GameOnly
    /\ ~ended
    /\ IF variant = "P0" THEN timerTick_0 ELSE timerTick

\* the Submit button; part_000: onClick={() => setGameOver(true)}
PressSubmit ==
    /\ GameOnly
    /\ IF variant = "P0"
       THEN /\ ended' = TRUE
            /\ UNCHANGED <<variant, passageIndex, tokens, groups, statuses, edits, errors,
                           inputValue, editingId, score, secondsLeft, wrongSubmissions>>
       ELSE onSubmitGame

\* Reset (GD, P1) and Play Again (P1)
PressReset ==
    /\ GameOnly
    /\ variant \in {"GD", "P1"}
    /\ onReset

\* Retry: in the overlay of GD, in the footer and the overlay of P0
PressRetry ==
    /\ GameFrame
    /\ retriedFrom' = passageIndex
    /\ IF variant = "GD"
       THEN ended /\ \E random \in 0..(Len(PASSAGES) - 1) : onRetryDifferent(random)
       ELSE variant = "P0" /\ \E random \in 0..(Len(PASSAGES_0) - 2) : handleRetry(random)

\* Close, in the overlay of P1
PressClose ==
    /\ GameOnly
    /\ variant = "P1"
    /\ ended
    /\ closeResults

GameNext ==
    \/ ClickSpan
    \/ TypeText
    \/ PressEnter
    \/ BlurInput
    \/ PressEscape
    \/ Tick
    \/ PressSubmit
    \/ PressReset
    \/ PressRetry
    \/ PressClose

---------------------------------------------------------------------------
(* part_003 .. part_006: the WordBattles games, content *)

w_ca == <<"c", "a">>
w_cat == <<"c", "a", "t">>
w_CAT_ == <<"C", "A", "T", " ">>
w_tac == <<"t", "a", "c">>
w_dog == <<"d", "o", "g">>
w_mat == <<"m", "a", "t">>
w_game == <<"g", "a", "m", "e">>
w_pond == <<"p", "o", "n", "d">>
w_water == <<"w", "a", "t", "e", "r">>
w_waters == <<"w", "a", "t", "e", "r", "s">>
w_school == <<"s", "c", "h", "o", "o", "l">>

\* the word banks, in excerpts
EASY_WORD_BANK == {w_cat, w_dog, w_mat}          \* part_003
DICTIONARY == {w_cat, w_dog, w_game, w_school}           \* part_004
EASY_WORD_BANK_5 == {w_cat, w_water}       \* part_005
WORD_BANK == {w_cat, w_dog, w_mat, w_game}               \* part_006

\* part_005: the words a served /words-dictionary.json holds
WordsDictionaryJson == {w_pond, w_waters}

dict(v) ==
    IF v = "B3" THEN EASY_WORD_BANK
    ELSE IF v = "B4" THEN DICTIONARY
    ELSE IF v = "B5" THEN EASY_WORD_BANK_5
    ELSE WORD_BANK

\* part_005: LETTER_SETS[0] and LETTER_SETS[4]
LETTER_SETS == {<<"c", "a", "t", "d", "o", "p", "n">>, <<"w", "a", "t", "e", "r", "n", "s">>}

\* racks buildRack can return (RACK_SIZE letters of the pool, two vowels at least)
buildRack(v) ==
    IF v = "B3" THEN {<<"c", "a", "t", "g", "m", "e">>, <<"d", "o", "g", "c", "a", "t">>}
    ELSE IF v = "B4" THEN {<<"c", "a", "t", "g", "a", "m", "e">>, <<"s", "c", "h", "o", "o", "l", "a">>}
    ELSE IF v = "B5" THEN LETTER_SETS
    ELSE {<<"c", "a", "t", "g", "a", "m", "e">>, <<"d", "o", "g", "c", "a", "t", "s">>}

\* what the player may type into the input
BattleTexts(v) ==
    {<<>>, w_ca, w_CAT_, w_tac} \cup (dict(v) \ {w_cat})
        \cup (IF v = "B5" THEN WordsDictionaryJson ELSE {})

pointsFor(len) ==                                        \* part_003
    IF len >= 6 THEN 30 ELSE IF len = 5 THEN 20 ELSE IF len = 4 THEN 10 ELSE 5

\* the variant of pointsForLength_4 below that pays the 30 of the other games
pointsForLength_4_as30(len) ==
    IF len >= 6 THEN 30 ELSE IF len = 5 THEN 20 ELSE IF len = 4 THEN 10 ELSE 5

pointsForLength_4(len) ==                                \* part_004
    IF len >= 6 THEN 40 ELSE IF len = 5 THEN 20 ELSE IF len = 4 THEN 10 ELSE 5

pointsForLength_5(len) ==                                \* part_005
    IF len >= 6 THEN 30 ELSE IF len = 5 THEN 20 ELSE IF len = 4 THEN 10 ELSE 5

pointsForLength_6(len) ==                                \* part_006
    IF len >= 6 THEN 30 ELSE IF len = 5 THEN 20 ELSE IF len = 4 THEN 10 ELSE 5

\* part_005: raw.toLowerCase().trim().replace(/[^a-z]/g, "")
normalizeInput(raw) ==
    SelectSeq(trim(toLowerCase(raw)), LAMBDA c : c \in DOMAIN UpperOf)

Includes(ws, w) == \E i \in 1..Len(ws) : ws[i] = w

\* a.localeCompare(b) < 0 on lower-case words
letterRank(c) == CHOOSE i \in 1..26 : LOWER[i] = c

RECURSIVE localeBefore(_, _)
localeBefore(a, b) ==
    IF a = <<>> THEN b # <<>>
    ELSE IF b = <<>> THEN FALSE
    ELSE IF Head(a) # Head(b) THEN letterRank(Head(a)) < letterRank(Head(b))
    ELSE localeBefore(Tail(a), Tail(b))

\* candidates.sort((a, b) => a.length - b.length || a.localeCompare(b))
RECURSIVE sortCandidates(_)
sortCandidates(S) ==
    IF S = {} THEN <<>>
    ELSE LET m == CHOOSE x \in S : \A y \in S \ {x} :
                      Len(x) < Len(y) \/ (Len(x) = Len(y) /\ localeBefore(x, y))
         IN  <<m>> \o sortCandidates(S \ {m})

Min2(a, b) == IF a < b THEN a ELSE b

---------------------------------------------------------------------------

(* part_003 .. part_006: the WordBattles games, handlers *)

\* At most MaxPending feedback timeouts are pending at a time.
MaxPending == 2

\* TOTAL_TIME (90 in part_003, 120 in the others), run with a short round
BattleSeconds == 2

\* part_003 is run for BotSeconds, long enough for the bot's interval to elapse twice
BotSeconds == 6

TOTAL_TIME_b(v) == IF v = "B3" THEN BotSeconds ELSE BattleSeconds

\* the one-second ticks that can fall inside a delay of ms milliseconds
TicksWithin(ms) == (ms + 999) \div 1000

\* setInterval(tryBot, 2000 + randInt(1200)), a delay of 2000 .. 3199 ms: the
\* fewest and the most one-second ticks that fall inside it
BotMinTicks == 2000 \div 1000

BotMaxTicks == TicksWithin(2000 + 1199)

\* setTimeout(() => clear the feedback, ms): the callback is queued; stale
\* (history) is set by a later reset
scheduled(ms) == Append(bTimeouts, [stale |-> FALSE, ticks |-> TicksWithin(ms)])

\* part_003 flashInvalid(msg), part_006 flash(text)
flashInvalid(msg) ==
    /\ bMsg' = msg
    /\ bTimeouts' = scheduled(900)

\* part_005 showFeedback(fb)
showFeedback(fb) ==
    /\ bMsg' = fb
    /\ bTimeouts' = scheduled(1500)

\* part_005: slice(0, 10), run here with a log of one entry
LOG_SIZE == 1

\* part_005 logAttempt(word, result)
logAttempt(w, result) ==
    LET next == <<[word |-> w, result |-> result]>> \o attemptLog
    IN  attemptLog' = SubSeq(next, 1, Min2(LOG_SIZE, Len(next)))

AcceptedText == (5 :> "+5") @@ (10 :> "+10") @@ (20 :> "+20") @@ (30 :> "+30") @@ (40 :> "+40")

\* part_003 submitPlayer
submitPlayer ==
    LET guess == toLowerCase(trim(bInput))
        used  == {bFound[i] : i \in 1..Len(bFound)} \cup {botWords[i] : i \in 1..Len(botWords)}
        keep  == UNCHANGED <<bVariant, bRack, bInput, bScore, bFound, bTimeLeft, bOver,
                             botScore, botWords, extendedDict, attemptLog>>
    IN  IF bOver \/ guess = <<>> THEN UNCHANGED varsWords
        ELSE IF Len(guess) < 3 THEN flashInvalid("Too short!") /\ keep
        ELSE IF guess \in used THEN flashInvalid("Already used!") /\ keep
        ELSE IF guess \notin dict("B3") THEN flashInvalid("Invalid!") /\ keep
        ELSE IF ~canFormWord(guess, bRack) THEN flashInvalid("Invalid!") /\ keep
        ELSE /\ bScore' = bScore + pointsFor(Len(guess))
             /\ bFound' = <<guess>> \o bFound
             /\ bInput' = <<>>
             /\ UNCHANGED <<bVariant, bRack, bMsg, bTimeLeft, bOver, botScore, botWords,
                            extendedDict, attemptLog, bTimeouts>>

\* a tryBot that only leaves out the words the bot itself has played
tryBot_ownWordsOnly(random) ==
    LET used == {botWords[i] : i \in 1..Len(botWords)}
        candidates == sortCandidates({w \in EASY_WORD_BANK :
                          Len(w) >= 3 /\ w \notin used /\ canFormWord(w, bRack)})
    IN  IF Len(candidates) = 0 THEN UNCHANGED varsWords
        ELSE LET pick == candidates[(random % Min2(4, Len(candidates))) + 1]
             IN  /\ botWords' = <<pick>> \o botWords
                 /\ botScore' = botScore + pointsFor(Len(pick))
                 /\ UNCHANGED <<bVariant, bRack, bInput, bScore, bFound, bMsg, bTimeLeft,
                                bOver, extendedDict, attemptLog, bTimeouts>>

\* part_003 tryBot; pick is candidates[randInt(Math.min(4, candidates.length))]
tryBot(random) ==
    LET used == {bFound[i] : i \in 1..Len(bFound)} \cup {botWords[i] : i \in 1..Len(botWords)}
        candidates == sortCandidates({w \in EASY_WORD_BANK :
                          Len(w) >= 3 /\ w \notin used /\ canFormWord(w, bRack)})
    IN  IF Len(candidates) = 0 THEN UNCHANGED varsWords
        ELSE LET pick == candidates[(random % Min2(4, Len(candidates))) + 1]
             IN  /\ botWords' = <<pick>> \o botWords
                 /\ botScore' = botScore + pointsFor(Len(pick))
                 /\ UNCHANGED <<bVariant, bRack, bInput, bScore, bFound, bMsg, bTimeLeft,
                                bOver, extendedDict, attemptLog, bTimeouts>>

\* part_004 submit
submit_4 ==
    LET guess == toLowerCase(trim(bInput))
        keep  == UNCHANGED <<bVariant, bRack, bInput, bScore, bFound, bTimeLeft, bOver,
                             botScore, botWords, extendedDict, attemptLog, bTimeouts>>
    IN  IF bOver THEN UNCHANGED varsWords
        ELSE IF Len(guess) < 3 THEN bMsg' = "Word must be at least 3 letters." /\ keep
        ELSE IF ~canFormWord_4(guess, bRack)
             THEN bMsg' = "Word cannot be formed from the given letters." /\ keep
        ELSE IF guess \notin dict("B4") THEN bMsg' = "Invalid word." /\ keep
        ELSE IF Includes(bFound, guess) THEN bMsg' = "Word already used." /\ keep
        ELSE LET pts == pointsForLength_4(Len(guess))
             IN  /\ bScore' = bScore + pts
                 /\ bFound' = <<guess>> \o bFound
                 /\ bInput' = <<>>
                 /\ bMsg' = AcceptedText[pts]
                 /\ UNCHANGED <<bVariant, bRack, bTimeLeft, bOver, botScore, botWords,
                                extendedDict, attemptLog, bTimeouts>>

\* the variant of inDictionary below that answers only once the fetch has loaded
inDictionary_needsFetch(w) ==
    extendedDict = "loaded" /\ w \in (dict("B5") \cup WordsDictionaryJson)

\* part_005 inDictionary; extendedDict is a Set only once the fetch has loaded
inDictionary(w) ==
    \/ w \in dict("B5")
    \/ extendedDict = "loaded" /\ w \in WordsDictionaryJson

\* part_005 submit
submit_5 ==
    LET w    == normalizeInput(bInput)
        keep == UNCHANGED <<bVariant, bRack, bInput, bScore, bFound, bTimeLeft, bOver,
                            botScore, botWords, extendedDict>>
    IN  IF bOver \/ w = <<>> THEN UNCHANGED varsWords
        ELSE IF Len(w) < 3
             THEN showFeedback("x Too short (min 3)") /\ logAttempt(w, "too short") /\ keep
        ELSE IF \E i \in 1..Len(bFound) : toLowerCase(bFound[i]) = w
             THEN showFeedback("x Already used") /\ logAttempt(w, "already used") /\ keep
        ELSE IF ~lettersFit(w, bRack)
             THEN /\ showFeedback("x Invalid - uses letters not in set")
                  /\ logAttempt(w, "letters not in set")
                  /\ keep
        ELSE IF ~inDictionary(w)
             THEN /\ showFeedback("x Invalid - not a real word")
                  /\ logAttempt(w, "not a real word")
                  /\ keep
        ELSE LET pts == pointsForLength_5(Len(w))
             IN  /\ bScore' = bScore + pts
                 /\ bFound' = <<w>> \o bFound
                 /\ bInput' = <<>>
                 /\ showFeedback(AcceptedText[pts])
                 /\ logAttempt(w, AcceptedText[pts])
                 /\ UNCHANGED <<bVariant, bRack, bTimeLeft, bOver, botScore, botWords,
                                extendedDict>>

\* the variant of submit_6 below that charges 5 points for a refused word
submit_6_penalty ==
    LET guess == toLowerCase(trim(bInput))
    IN  IF bOver \/ guess = <<>> THEN UNCHANGED varsWords
        ELSE IF \/ Len(guess) < 3
                \/ Includes(bFound, guess)
                \/ guess \notin dict("B6")
                \/ ~canFormWord_6(guess, bRack)
             THEN /\ flashInvalid("Invalid!")
                  /\ bScore' = bScore - 5
                  /\ UNCHANGED <<bVariant, bRack, bInput, bFound, bTimeLeft, bOver,
                                 botScore, botWords, extendedDict, attemptLog>>
        ELSE /\ bScore' = bScore + pointsForLength_6(Len(guess))
             /\ bFound' = <<guess>> \o bFound
             /\ bInput' = <<>>
             /\ UNCHANGED <<bVariant, bRack, bMsg, bTimeLeft, bOver, botScore, botWords,
                            extendedDict, attemptLog, bTimeouts>>

\* part_006 submit
submit_6 ==
    LET guess == toLowerCase(trim(bInput))
        keep  == UNCHANGED <<bVariant, bRack, bInput, bScore, bFound, bTimeLeft, bOver,
                             botScore, botWords, extendedDict, attemptLog>>
    IN  IF bOver \/ guess = <<>> THEN UNCHANGED varsWords
        ELSE IF Len(guess) < 3 THEN flashInvalid("Invalid!") /\ keep
        ELSE IF Includes(bFound, guess) THEN flashInvalid("Invalid!") /\ keep
        ELSE IF guess \notin dict("B6") THEN flashInvalid("Invalid!") /\ keep
        ELSE IF ~canFormWord_6(guess, bRack) THEN flashInvalid("Invalid!") /\ keep
        ELSE /\ bScore' = bScore + pointsForLength_6(Len(guess))
             /\ bFound' = <<guess>> \o bFound
             /\ bInput' = <<>>
             /\ UNCHANGED <<bVariant, bRack, bMsg, bTimeLeft, bOver, botScore, botWords,
                            extendedDict, attemptLog, bTimeouts>>

\* the feedback a component shows when it shows none
NoFeedback == IF bVariant = "B5" THEN "null" ELSE ""

\* reset (all four); the callbacks already scheduled stay queued
reset(r) ==
    /\ bRack' = r
    /\ bInput' = <<>>
    /\ bScore' = 0
    /\ bFound' = <<>>
    /\ bMsg' = NoFeedback
    /\ bTimeLeft' = TOTAL_TIME_b(bVariant)
    /\ bOver' = FALSE
    /\ botScore' = 0
    /\ botWords' = <<>>
    /\ attemptLog' = <<>>
    /\ bTimeouts' = [i \in 1..Len(bTimeouts) |-> [bTimeouts[i] EXCEPT !.stale = TRUE]]
    /\ UNCHANGED <<bVariant, extendedDict>>

\* the interval callback (all four); a pending timeout has one tick less to see
timerTick_b ==
    /\ IF bTimeLeft <= 1
       THEN bOver' = TRUE /\ bTimeLeft' = 0
       ELSE bTimeLeft' = bTimeLeft - 1 /\ UNCHANGED bOver
    /\ bTimeouts' = [i \in 1..Len(bTimeouts) |-> [bTimeouts[i] EXCEPT !.ticks = @ - 1]]
    /\ UNCHANGED <<bVariant, bRack, bInput, bScore, bFound, bMsg, botScore, botWords,
                   extendedDict, attemptLog>>

---------------------------------------------------------------------------

(* part_003 .. part_006: the WordBattles games, events *)

\* an event of a mounted WordBattles game, which touches no other component
BattleOnly ==
    /\ bVariant # "none"
    /\ UNCHANGED <<varsPure, varsLoc, varsRack, varsGame, varsSurvival, varsJumble, varsCountdown,
                   varsTutor>>

\* the state after the mount effects: reset() has run, the fetch is under way
BattleMounted ==
    /\ bVariant \in {"B3", "B4", "B5", "B6"}
    /\ bRack \in buildRack(bVariant)
    /\ bInput = <<>>
    /\ bScore = 0
    /\ bFound = <<>>
    /\ bMsg = NoFeedback
    /\ bTimeLeft = TOTAL_TIME_b(bVariant)
    /\ bOver = FALSE
    /\ botScore = 0
    /\ botWords = <<>>
    /\ extendedDict = (IF bVariant = "B5" THEN "pending" ELSE "none")
    /\ attemptLog = <<>>
    /\ bTimeouts = <<>>
    /\ botTimer = 0
    /\ botIdle = 0

\* onChange of the input
TypeWord ==
    /\ BattleOnly
    /\ UNCHANGED <<botTimer, botIdle>>
    /\ \E txt \in BattleTexts(bVariant) : bInput' = txt
    /\ UNCHANGED <<bVariant, bRack, bScore, bFound, bMsg, bTimeLeft, bOver, botScore,
                   botWords, extendedDict, attemptLog, bTimeouts>>

\* Enter in the input, or the Submit button
\* part_003's bot effect has playerWords among its dependencies: an accepted
\* word clears the bot's interval and sets a new one
SubmitWord ==
    /\ BattleOnly
    /\ Len(bTimeouts) < MaxPending
    /\ IF bVariant = "B3" THEN submitPlayer
       ELSE IF bVariant = "B4" THEN submit_4
       ELSE IF bVariant = "B5" THEN submit_5
       ELSE submit_6
    /\ botTimer' = IF bVariant = "B3" /\ bFound' # bFound THEN 0 ELSE botTimer
    /\ UNCHANGED botIdle

\* part_003: the bot's interval fires; the effect keeps one only while not over
\* the interval has seen at least the ticks of its shortest delay; when the
\* bot plays, botWords changes and the effect sets a new interval
BotTurn ==
    /\ BattleOnly
    /\ bVariant = "B3"
    /\ ~bOver
    /\ botTimer >= BotMinTicks
    /\ \E random \in 0..3 : tryBot(random)
    /\ botTimer' = 0
    /\ botIdle' = IF botWords' # botWords THEN 0 ELSE botIdle

\* the oldest pending timeout fires and clears the feedback
FeedbackTimeout ==
    /\ BattleOnly
    /\ UNCHANGED <<botTimer, botIdle>>
    /\ bTimeouts # <<>>
    /\ bMsg' = NoFeedback
    /\ bTimeouts' = Tail(bTimeouts)
    /\ UNCHANGED <<bVariant, bRack, bInput, bScore, bFound, bTimeLeft, bOver, botScore,
                   botWords, extendedDict, attemptLog>>

\* the one-second interval, live while not over; a timeout, and the bot's
\* interval, that has seen all the ticks its delay allows fires first
BattleTick ==
    /\ BattleOnly
    /\ ~bOver
    /\ IF bVariant = "B3"
       THEN /\ botTimer < BotMaxTicks
            /\ botTimer' = botTimer + 1
            /\ botIdle' = Min2(botIdle + 1, BotMaxTicks + 1)
       ELSE UNCHANGED <<botTimer, botIdle>>
    /\ \A i \in 1..Len(bTimeouts) : bTimeouts[i].ticks > 0
    /\ timerTick_b

\* Retry: in the overlay (all four) and in the footer (part_005, part_006)
BattleRetry ==
    /\ BattleOnly
    /\ botTimer' = 0
    /\ botIdle' = 0
    /\ bOver \/ bVariant \in {"B5", "B6"}
    /\ \E r \in buildRack(bVariant) : reset(r)

\* part_004: Shuffle
shuffleRack ==
    /\ BattleOnly
    /\ UNCHANGED <<botTimer, botIdle>>
    /\ bVariant = "B4"
    /\ \E r \in buildRack("B4") : bRack' = r
    /\ UNCHANGED <<bVariant, bInput, bScore, bFound, bMsg, bTimeLeft, bOver, botScore,
                   botWords, extendedDict, attemptLog, bTimeouts>>

\* part_005 loadDict: the fetch ends; outcome is "loaded" (res.ok and the JSON
\* parsed), "notOk" (res.ok false) or "rejected" (fetch or json() threw)
FetchSettles ==
    /\ BattleOnly
    /\ UNCHANGED <<botTimer, botIdle>>
    /\ bVariant = "B5"
    /\ extendedDict = "pending"
    /\ \E outcome \in {"loaded", "notOk", "rejected"} : extendedDict' = outcome
    /\ UNCHANGED <<bVariant, bRack, bInput, bScore, bFound, bMsg, bTimeLeft, bOver, botScore,
                   botWords, attemptLog, bTimeouts>>

BattleNext ==
    \/ TypeWord
    \/ SubmitWord
    \/ BotTurn
    \/ FeedbackTimeout
    \/ BattleTick
    \/ BattleRetry
    \/ shuffleRack
    \/ FetchSettles

---------------------------------------------------------------------------

(* part_002: SurvivalMode *)

DIGITS == <<"0", "1", "2", "3", "4", "5", "6", "7", "8", "9">>

\* String(n), n a non-negative integer
RECURSIVE numberToString(_)
numberToString(n) ==
    IF n < 10 THEN <<DIGITS[n + 1]>>
    ELSE numberToString(n \div 10) \o <<DIGITS[(n % 10) + 1]>>

digitValue(ch) == CHOOSE d \in 0..9 : DIGITS[d + 1] = ch

\* parseInt(raw, 10), raw a non-empty string of decimal digits
RECURSIVE parseInt(_)
parseInt(raw) ==
    IF Len(raw) = 1 THEN digitValue(raw[1])
    ELSE 10 * parseInt(SubSeq(raw, 1, Len(raw) - 1)) + digitValue(raw[Len(raw)])

\* localStorage after setItem("survivalModeHighScore", str)
Item(str) == [has |-> TRUE, value |-> str]

\* BASE_QUESTIONS, each with its correctIndex and difficulty
BASE_QUESTIONS ==
    << [correctIndex |-> 1, difficulty |-> 1], [correctIndex |-> 2, difficulty |-> 2],
       [correctIndex |-> 1, difficulty |-> 2], [correctIndex |-> 0, difficulty |-> 3],
       [correctIndex |-> 0, difficulty |-> 4], [correctIndex |-> 1, difficulty |-> 4],
       [correctIndex |-> 1, difficulty |-> 5] >>

\* [...qs].sort((a, b) => a.difficulty - b.difficulty): a stable sort
RECURSIVE sortByDifficulty(_)
sortByDifficulty(qs) ==
    IF qs = <<>> THEN <<>>
    ELSE LET rest == sortByDifficulty(SubSeq(qs, 1, Len(qs) - 1))
             q    == qs[Len(qs)]
             keep == {i \in 1..Len(rest) : rest[i].difficulty <= q.difficulty}
             k    == Cardinality(keep)
         IN  SubSeq(rest, 1, k) \o <<q>> \o SubSeq(rest, k + 1, Len(rest))

\* questions, as the mount effect and handleRetry set it
questions == sortByDifficulty(BASE_QUESTIONS)

\* the correct answers a game is run for
MaxAnswers == 8

Max2(a, b) == IF a >= b THEN a ELSE b

\* highScore: raw ? parseInt(raw, 10) : 0
readHighScore(stored) ==
    IF stored.has /\ stored.value # <<>> THEN parseInt(stored.value) ELSE 0

\* the closure of an effect run that made no interval
NoClosure == [score |-> 0, best |-> 0]

\* the timer effect with deps [index, gameOver] that mounts the interval once
\* and never runs again
timerEffect_2_mountOnly(index0, over0, index1, over1, score1, best1) == sClosure

\* the timer effect with deps [index, gameOver]: when a dep changed, the old
\* interval is cleared and, unless the game is over, a new one is made whose
\* callback closes over the triggerGameOver of the render that ran the effect
timerEffect_2(index0, over0, index1, over1, score1, best1) ==
    IF index0 = index1 /\ over0 = over1 THEN sClosure
    ELSE IF over1 THEN NoClosure
    ELSE [score |-> score1, best |-> best1]

\* triggerGameOver, called where score and best have the values sc and b,
\* pending being the timeouts still queued
triggerGameOver(sc, b, pending) ==
    LET nextBest == Max2(sc, b)
    IN  /\ sGameOver' = TRUE
        /\ sFlash' = TRUE
        /\ IF nextBest # b
           THEN sStored' = Item(numberToString(nextBest)) /\ sBest' = nextBest
           ELSE UNCHANGED <<sStored, sBest>>
        /\ sTimeouts' = Append(pending, [ticks |-> TicksWithin(500)])
        /\ sKnownMax' = Max2(sKnownMax, sScore)
        /\ sClosure' = timerEffect_2(sIndex, sGameOver, sIndex, TRUE, sScore, sBest')

\* an onSelect that goes back to the first question after the last
onSelect_wrapsToStart(optIndex) ==
    /\ ~sGameOver
    /\ sIndex < Len(questions)
    /\ IF optIndex = questions[sIndex + 1].correctIndex
       THEN LET nextIdx == sIndex + 1
                idx == IF nextIdx >= Len(questions)
                       THEN 0
                       ELSE nextIdx
            IN  /\ sScore' = sScore + 50
                /\ sIndex' = idx
                /\ sTimeLeft' = RoundSeconds
                /\ sClosure' = timerEffect_2(sIndex, sGameOver, idx, sGameOver,
                                             sScore + 50, sBest)
                /\ UNCHANGED <<sMounted, sGameOver, sFlash, sBest, sStored, sTimeouts,
                               sKnownMax>>
       ELSE /\ triggerGameOver(sScore, sBest, sTimeouts)
            /\ UNCHANGED <<sMounted, sIndex, sScore, sTimeLeft>>

\* onSelect(optIndex)
onSelect(optIndex) ==
    /\ ~sGameOver
    /\ sIndex < Len(questions)
    /\ IF optIndex = questions[sIndex + 1].correctIndex
       THEN LET nextIdx == sIndex + 1
                idx == IF nextIdx >= Len(questions)
                       THEN (IF Len(questions) - 3 >= 0 THEN Len(questions) - 3
                             ELSE Len(questions) - 1)
                       ELSE nextIdx
            IN  /\ sScore' = sScore + 50
                /\ sIndex' = idx
                /\ sTimeLeft' = RoundSeconds
                /\ sClosure' = timerEffect_2(sIndex, sGameOver, idx, sGameOver,
                                             sScore + 50, sBest)
                /\ UNCHANGED <<sMounted, sGameOver, sFlash, sBest, sStored, sTimeouts,
                               sKnownMax>>
       ELSE /\ triggerGameOver(sScore, sBest, sTimeouts)
            /\ UNCHANGED <<sMounted, sIndex, sScore, sTimeLeft>>

\* an interval callback that ends the game one tick late, at t <= 0
timerTick_2_late ==
    LET pending == [i \in 1..Len(sTimeouts) |-> [sTimeouts[i] EXCEPT !.ticks = @ - 1]]
    IN  IF sTimeLeft <= 0
        THEN /\ sTimeLeft' = 0
             /\ triggerGameOver(sClosure.score, sClosure.best, pending)
             /\ UNCHANGED <<sMounted, sIndex, sScore>>
        ELSE /\ sTimeLeft' = sTimeLeft - 1
             /\ sTimeouts' = pending
             /\ UNCHANGED <<sMounted, sIndex, sScore, sGameOver, sFlash, sBest, sStored,
                            sClosure, sKnownMax>>

\* the interval callback: setTimeLeft's updater, which calls the
\* triggerGameOver the interval closes over
timerTick_2 ==
    LET pending == [i \in 1..Len(sTimeouts) |-> [sTimeouts[i] EXCEPT !.ticks = @ - 1]]
    IN  IF sTimeLeft <= 1
        THEN /\ sTimeLeft' = 0
             /\ triggerGameOver(sClosure.score, sClosure.best, pending)
             /\ UNCHANGED <<sMounted, sIndex, sScore>>
        ELSE /\ sTimeLeft' = sTimeLeft - 1
             /\ sTimeouts' = pending
             /\ UNCHANGED <<sMounted, sIndex, sScore, sGameOver, sFlash, sBest, sStored,
                            sClosure, sKnownMax>>

\* handleRetry
handleRetry_2 ==
    /\ sIndex' = 0
    /\ sScore' = 0
    /\ sTimeLeft' = RoundSeconds
    /\ sGameOver' = FALSE
    /\ sFlash' = FALSE
    /\ sClosure' = timerEffect_2(sIndex, sGameOver, 0, FALSE, 0, sBest)
    /\ UNCHANGED <<sMounted, sBest, sStored, sTimeouts, sKnownMax>>

\* what localStorage may hold when the page is opened: nothing, or a score an
\* earlier visit wrote
StoredAtStart == {NoItem, Item(numberToString(50)), Item(numberToString(100))}

SurvivalOnly == UNCHANGED <<varsPure, varsLoc, varsRack, varsGame, varsBattle, varsJumble, varsCountdown,
                            varsTutor>>

\* the state after the first render and the mount effects: best is
\* useState(highScore), the interval is live
SurvivalMounted ==
    /\ sMounted = TRUE
    /\ sIndex = 0
    /\ sScore = 0
    /\ sTimeLeft = RoundSeconds
    /\ sGameOver = FALSE
    /\ sFlash = FALSE
    /\ sStored \in StoredAtStart
    /\ sBest = readHighScore(sStored)
    /\ sClosure = [score |-> 0, best |-> sBest]
    /\ sTimeouts = <<>>
    /\ sKnownMax = sBest
    /\ sCorrect = 0
    /\ sWrong = FALSE
    /\ sElapsed = 0

\* a click on one of the four options
SelectOption ==
    /\ SurvivalOnly
    /\ sMounted
    /\ sScore < 50 * MaxAnswers
    /\ Len(sTimeouts) < MaxPending
    /\ \E optIndex \in 0..3 :
           /\ onSelect(optIndex)
           /\ IF optIndex = questions[sIndex + 1].correctIndex
              THEN sCorrect' = sCorrect + 1 /\ sElapsed' = 0 /\ UNCHANGED sWrong
              ELSE sWrong' = TRUE /\ UNCHANGED <<sCorrect, sElapsed>>

\* the one-second interval; a timeout that has seen all the ticks its delay
\* allows fires first
SurvivalTick ==
    /\ SurvivalOnly
    /\ sMounted
    /\ ~sGameOver
    /\ \A i \in 1..Len(sTimeouts) : sTimeouts[i].ticks > 0
    /\ timerTick_2
    /\ sElapsed' = sElapsed + 1
    /\ UNCHANGED <<sCorrect, sWrong>>

\* the oldest pending timeout fires: setFlash(false)
FlashTimeout ==
    /\ SurvivalOnly
    /\ sTimeouts # <<>>
    /\ sFlash' = FALSE
    /\ sTimeouts' = Tail(sTimeouts)
    /\ UNCHANGED <<sMounted, sIndex, sScore, sTimeLeft, sGameOver, sBest, sStored, sClosure,
                   sKnownMax, sCorrect, sWrong, sElapsed>>

\* Retry, in the game-over overlay
SurvivalRetry ==
    /\ SurvivalOnly
    /\ sMounted
    /\ sGameOver
    /\ handleRetry_2
    /\ sCorrect' = 0
    /\ sWrong' = FALSE
    /\ sElapsed' = 0

\* Back to Game Arena and into the game again: a new instance, which reads
\* localStorage anew; the old instance's timeouts no longer matter
SurvivalRemount ==
    /\ SurvivalOnly
    /\ sMounted
    /\ sGameOver
    /\ sIndex' = 0
    /\ sScore' = 0
    /\ sTimeLeft' = RoundSeconds
    /\ sGameOver' = FALSE
    /\ sFlash' = FALSE
    /\ sBest' = readHighScore(sStored)
    /\ sClosure' = [score |-> 0, best |-> sBest']
    /\ sTimeouts' = <<>>
    /\ sCorrect' = 0
    /\ sWrong' = FALSE
    /\ sElapsed' = 0
    /\ UNCHANGED <<sMounted, sStored, sKnownMax>>

SurvivalNext ==
    \/ SelectOption
    \/ SurvivalTick
    \/ FlashTimeout
    \/ SurvivalRetry
    \/ SurvivalRemount

---------------------------------------------------------------------------

(* VirtualTutor.tsx (second version) *)

\* the poll gives up when attempts > 20
POLL_LIMIT == 20

\* the messages a conversation is run for
MaxMessages == 3

\* what the user may have typed into the text area
TutorTexts == {<<>>, <<" ">>, <<"h", "i">>}

\* toast({title, ...})
toast(title) == tToasts' = tToasts \cup {title}

\* the widget's method is invoked; isAgentReady at that moment is recorded
invoke(method) == tCalls' = tCalls \cup {[call |-> method, ready |-> tReady]}

\* the widget calls that are awaited at a time
MaxInFlight == 1

\* await agent.<method>(...): the handler is suspended on the widget's promise;
\* then is what the caller of the handler does once the handler has returned
await(method, then) == tPending' = Append(tPending, [call |-> method, then |-> then])

\* the pending call k has settled and leaves the list
settled(k) == tPending' = SubSeq(tPending, 1, k - 1) \o SubSeq(tPending, k + 1, Len(tPending))

\* startConversation up to its await; without the handle it toasts and returns
startConversation(then) ==
    IF ~tAgent
    THEN /\ toast("Agent not ready")
         /\ UNCHANGED <<tConversing, tMessages, tCalls, tPending>>
    ELSE /\ invoke("startConversation")
         /\ await("startConversation", then)
         /\ UNCHANGED <<tConversing, tMessages, tToasts>>

\* startConversation from its await on; resolved says whether
\* agent.startConversation() resolved or rejected
startConversation_resumed(resolved) ==
    IF resolved
    THEN /\ tConversing' = TRUE
         /\ tMessages' = Append(tMessages, "assistant")
         /\ UNCHANGED tToasts
    ELSE /\ toast("Failed to start conversation")
         /\ UNCHANGED <<tConversing, tMessages>>

\* stopConversation
stopConversation ==
    /\ tConversing' = FALSE
    /\ tMessages' = Append(tMessages, "assistant")
    /\ UNCHANGED <<tMounted, tScript, tAgent, tReady, tPolling, tAttempts, tListening, tInput,
                   tToasts, tCalls, tPending>>

\* toggleListening up to its await; startConversation having returned without
\* awaiting anything (no handle), setListening(true) follows at once
toggleListening ==
    IF ~tListening
    THEN /\ startConversation("setListening")
         /\ tListening' = IF tAgent THEN tListening ELSE TRUE
         /\ UNCHANGED <<tMounted, tScript, tAgent, tReady, tPolling, tAttempts, tInput>>
    ELSE /\ tListening' = FALSE
         /\ tConversing' = FALSE
         /\ UNCHANGED <<tMounted, tScript, tAgent, tReady, tPolling, tAttempts, tInput,
                        tMessages, tToasts, tCalls, tPending>>

\* toggleListening from its await on: startConversation has returned, having
\* caught a rejection itself
toggleListening_resumed == tListening' = TRUE

\* resetConversation
resetConversation ==
    /\ tConversing' = FALSE
    /\ tListening' = FALSE
    /\ tMessages' = <<"assistant">>
    /\ UNCHANGED <<tMounted, tScript, tAgent, tReady, tPolling, tAttempts, tInput, tToasts,
                   tCalls, tPending>>

\* sendText(), called without an argument, up to its await: the content is the input
sendText ==
    LET content == trim(tInput)
    IN  IF content = <<>>
        THEN UNCHANGED <<tMounted, tScript, tAgent, tReady, tPolling, tAttempts, tConversing,
                         tListening, tInput, tMessages, tToasts, tCalls, tPending>>
        ELSE IF ~tAgent
        THEN /\ toast("Agent not ready")
             /\ UNCHANGED <<tMounted, tScript, tAgent, tReady, tPolling, tAttempts,
                            tConversing, tListening, tInput, tMessages, tCalls, tPending>>
        ELSE /\ tMessages' = Append(tMessages, "user")
             /\ tInput' = <<>>
             /\ invoke("sendMessage")
             /\ await("sendMessage", "return")
             /\ UNCHANGED <<tMounted, tScript, tAgent, tReady, tPolling, tAttempts,
                            tConversing, tListening, tToasts>>

\* sendText from its await on
sendText_resumed(resolved) ==
    IF resolved
    THEN /\ tMessages' = Append(tMessages, "assistant")
         /\ UNCHANGED tToasts
    ELSE /\ toast("Message failed")
         /\ UNCHANGED tMessages

\* a readiness poll that keeps its interval after it has set ready
pollTick_keepsPolling ==
    /\ tAttempts' = tAttempts + 1
    /\ IF tAgent
       THEN /\ tReady' = TRUE
            /\ UNCHANGED <<tPolling, tToasts>>
       ELSE IF tAttempts + 1 > POLL_LIMIT
       THEN /\ tPolling' = FALSE
            /\ toast("Agent not responding")
            /\ UNCHANGED tReady
       ELSE UNCHANGED <<tReady, tPolling, tToasts>>
    /\ UNCHANGED <<tMounted, tScript, tAgent, tConversing, tListening, tInput, tMessages,
                   tCalls, tPending>>

\* the readiness poll's interval callback
pollTick ==
    /\ tAttempts' = tAttempts + 1
    /\ IF tAgent
       THEN /\ tReady' = TRUE
            /\ tPolling' = FALSE
            /\ UNCHANGED tToasts
       ELSE IF tAttempts + 1 > POLL_LIMIT
       THEN /\ tPolling' = FALSE
            /\ toast("Agent not responding")
            /\ UNCHANGED tReady
       ELSE UNCHANGED <<tReady, tPolling, tToasts>>
    /\ UNCHANGED <<tMounted, tScript, tAgent, tConversing, tListening, tInput, tMessages,
                   tCalls, tPending>>

\* a step of a mounted VirtualTutor, which touches no other component
TutorFrame ==
    /\ tMounted
    /\ UNCHANGED <<varsPure, varsLoc, varsRack, varsGame, varsBattle, varsSurvival, varsJumble,
                   varsCountdown>>

\* something the user does, other than pressing Reset
TutorOnly ==
    /\ TutorFrame
    /\ tSinceReset' = FALSE

\* something that happens without the user: the script, the poll, a promise
TutorEvent ==
    /\ TutorFrame
    /\ UNCHANGED tSinceReset

\* the state after the first render and the mount effects: the script is
\* injected, the poll runs
TutorMounted ==
    /\ tMounted = TRUE
    /\ tScript = "loading"
    /\ tAgent = FALSE
    /\ tReady = FALSE
    /\ tPolling = TRUE
    /\ tAttempts = 0
    /\ tConversing = FALSE
    /\ tListening = FALSE
    /\ tInput = <<>>
    /\ tMessages = <<>>
    /\ tToasts = {}
    /\ tCalls = {}
    /\ tPending = <<>>
    /\ tSinceReset = FALSE

\* the injected script has run and defined window.didAgent
ScriptLoads ==
    /\ TutorEvent
    /\ tScript = "loading"
    /\ tScript' = "loaded"
    /\ tAgent' = TRUE
    /\ UNCHANGED <<tMounted, tReady, tPolling, tAttempts, tConversing, tListening, tInput,
                   tMessages, tToasts, tCalls, tPending>>

\* script.onerror
ScriptFails ==
    /\ TutorEvent
    /\ tScript = "loading"
    /\ tScript' = "failed"
    /\ toast("D-ID script failed to load")
    /\ UNCHANGED <<tMounted, tAgent, tReady, tPolling, tAttempts, tConversing, tListening,
                   tInput, tMessages, tCalls, tPending>>

\* the poll's interval fires, every 300 ms while it is live
PollFires ==
    /\ TutorEvent
    /\ tPolling
    /\ pollTick

\* the promise of a pending widget call resolves or rejects, and the handlers
\* awaiting it run on
PromiseSettles ==
    /\ TutorEvent
    /\ \E k \in 1..Len(tPending), resolved \in BOOLEAN :
          /\ settled(k)
          /\ IF tPending[k].call = "sendMessage"
             THEN /\ sendText_resumed(resolved)
                  /\ UNCHANGED <<tConversing, tListening>>
             ELSE /\ startConversation_resumed(resolved)
                  /\ IF tPending[k].then = "setListening"
                     THEN toggleListening_resumed
                     ELSE UNCHANGED tListening
    /\ UNCHANGED <<tMounted, tScript, tAgent, tReady, tPolling, tAttempts, tInput, tCalls>>

\* onChange of the text area
TypeMessage ==
    /\ TutorOnly
    /\ \E txt \in TutorTexts : tInput' = txt
    /\ UNCHANGED <<tMounted, tScript, tAgent, tReady, tPolling, tAttempts, tConversing,
                   tListening, tMessages, tToasts, tCalls, tPending>>

\* the messages shown and still to come leave room for n more
RoomFor(n) == Len(tMessages) + Len(tPending) + n <= MaxMessages

\* one more widget call may be awaited
MayAwait == Len(tPending) < MaxInFlight

\* Start Chat, rendered while not conversing, disabled={!isAgentReady}
ClickStartChat ==
    /\ TutorOnly
    /\ ~tConversing
    /\ tReady
    /\ RoomFor(1)
    /\ MayAwait
    /\ startConversation("return")
    /\ UNCHANGED <<tMounted, tScript, tAgent, tReady, tPolling, tAttempts, tListening, tInput>>

\* Stop, rendered while conversing
ClickStop ==
    /\ TutorOnly
    /\ tConversing
    /\ RoomFor(1)
    /\ stopConversation

\* the push-to-talk button, disabled={!isAgentReady}
ClickPushToTalk ==
    /\ TutorOnly
    /\ tReady
    /\ RoomFor(1)
    /\ MayAwait
    /\ startConversation("return")
    /\ UNCHANGED <<tMounted, tScript, tAgent, tReady, tPolling, tAttempts, tListening, tInput>>

\* the listening toggle, which has no disabled attribute
ClickListening ==
    /\ TutorOnly
    /\ tListening \/ (RoomFor(1) /\ MayAwait)
    /\ toggleListening

\* the Reset conversation button
ClickResetConversation ==
    /\ TutorFrame
    /\ tSinceReset' = TRUE
    /\ resetConversation

\* the Send button (the form's submit), disabled={!isAgentReady || input.trim().length === 0}
ClickSend ==
    /\ TutorOnly
    /\ tReady
    /\ Len(trim(tInput)) # 0
    /\ RoomFor(2)
    /\ MayAwait
    /\ sendText

\* Enter without Shift in the text area, which has no disabled attribute
PressEnterInTextarea ==
    /\ TutorOnly
    /\ RoomFor(2)
    /\ MayAwait
    /\ sendText

\* the page is left: the effect's cleanup clears the poll and removes the script;
\* what a promise settled later would set is dropped with the component
TutorUnmount ==
    /\ TutorOnly
    /\ tMounted' = FALSE
    /\ tPolling' = FALSE
    /\ UNCHANGED <<tScript, tAgent, tReady, tAttempts, tConversing, tListening, tInput,
                   tMessages, tToasts, tCalls, tPending>>

TutorNext ==
    \/ TutorUnmount
    \/ ScriptLoads
    \/ ScriptFails
    \/ PollFires
    \/ PromiseSettles
    \/ TypeMessage
    \/ ClickStartChat
    \/ ClickStop
    \/ ClickPushToTalk
    \/ ClickListening
    \/ ClickResetConversation
    \/ ClickSend
    \/ PressEnterInTextarea

---------------------------------------------------------------------------

(* JumbledWords.tsx *)

w_good == <<"g", "o", "o", "d">>

\* WORDS, the first, second and ninth of its ten entries
WORDS ==
    << [jumbled |-> w_tac, answer |-> w_cat],
       [jumbled |-> <<"d", "o", "o", "g">>, answer |-> w_good],
       [jumbled |-> <<"g", "m", "a", "e">>, answer |-> w_game] >>

\* the words a round is run for, and the wrong answers it is run for
MaxSolved == 4

\* for (let i = a.length - 1; i > 0; i--) { j = Math.floor(Math.random() * (i + 1));
\* [a[i], a[j]] = [a[j], a[i]] }: the arrays the loop can leave in a from i on,
\* j being any of 0 .. i
RECURSIVE shuffleFrom(_, _)
shuffleFrom(a, i) ==
    IF ~(i > 0) THEN {a}
    ELSE UNION {shuffleFrom([a EXCEPT ![i + 1] = a[j + 1], ![j + 1] = a[i + 1]], i - 1) :
                   j \in 0..i}

\* a loop that copies a[j] into a[i] and leaves a[j] as it is
RECURSIVE shuffleFrom_overwrites(_, _)
shuffleFrom_overwrites(a, i) ==
    IF ~(i > 0) THEN {a}
    ELSE UNION {shuffleFrom_overwrites([a EXCEPT ![i + 1] = a[j + 1]], i - 1) : j \in 0..i}

\* a shuffle whose loop overwrites instead of swapping
shuffle_overwrites(n) == shuffleFrom_overwrites([i \in 1..n |-> i - 1], n - 1)

\* shuffle(WORDS.map((_, i) => i)): the arrays it can return
shuffle(n) == shuffleFrom([i \in 1..n |-> i - 1], n - 1)

\* current: WORDS[order[idx % order.length]], null while order is empty
current == IF Len(jOrder) = 0 THEN <<>> ELSE <<WORDS[jOrder[(jIdx % Len(jOrder)) + 1] + 1]>>

\* what the player may type into the input
JumbleTexts == {<<>>, w_cat, w_CAT_, w_good, w_game, w_dog}

\* submit
submit_j ==
    /\ current # <<>>
    /\ LET guess  == toLowerCase(trim(jInput))
           target == toLowerCase(current[1].answer)
       IN  IF guess = target
           THEN /\ jScore' = jScore + 25
                /\ jIdx' = jIdx + 1
                /\ jInput' = <<>>
                /\ UNCHANGED <<jMounted, jOrder, jTimeLeft, jGameOver>>
           ELSE IF Len(guess) > 0
           THEN /\ jScore' = jScore - 5
                /\ UNCHANGED <<jMounted, jOrder, jIdx, jInput, jTimeLeft, jGameOver>>
           ELSE UNCHANGED varsPlay

\* handleRetry that keeps the score
handleRetry_j_keepScore(order) ==
    /\ jOrder' = order
    /\ jIdx' = 0
    /\ jInput' = <<>>
    /\ jTimeLeft' = RoundSeconds
    /\ jGameOver' = FALSE
    /\ UNCHANGED <<jMounted, jScore>>

\* handleRetry; order is what shuffle returned
handleRetry_j(order) ==
    /\ jOrder' = order
    /\ jIdx' = 0
    /\ jScore' = 0
    /\ jInput' = <<>>
    /\ jTimeLeft' = RoundSeconds
    /\ jGameOver' = FALSE
    /\ UNCHANGED jMounted

\* the interval callback
timerTick_j ==
    /\ IF jTimeLeft <= 1
       THEN jGameOver' = TRUE /\ jTimeLeft' = 0
       ELSE jTimeLeft' = jTimeLeft - 1 /\ UNCHANGED jGameOver
    /\ UNCHANGED <<jMounted, jOrder, jIdx, jScore, jInput>>

JumbleOnly == UNCHANGED <<varsPure, varsLoc, varsRack, varsGame, varsBattle, varsSurvival, varsCountdown,
                          varsTutor>>

\* the state after the mount effect
JumbleMounted ==
    /\ jMounted = TRUE
    /\ jOrder \in shuffle(Len(WORDS))
    /\ jIdx = 0
    /\ jScore = 0
    /\ jInput = <<>>
    /\ jTimeLeft = RoundSeconds
    /\ jGameOver = FALSE
    /\ jSolved = 0
    /\ jWrong = 0
    /\ jShown = <<current[1].answer>>

\* onChange of the input; under the game-over overlay it keeps the focus
JumbleType ==
    /\ JumbleOnly
    /\ jMounted
    /\ \E txt \in JumbleTexts : jInput' = txt
    /\ UNCHANGED <<jMounted, jOrder, jIdx, jScore, jTimeLeft, jGameOver, jSolved, jWrong, jShown>>

\* Enter in the input, or the Submit button
JumbleSubmit ==
    /\ JumbleOnly
    /\ jMounted
    /\ jSolved < MaxSolved
    /\ jWrong < MaxSolved
    /\ submit_j
    /\ LET guess == toLowerCase(trim(jInput))
       IN  IF guess = toLowerCase(current[1].answer)
           THEN jSolved' = jSolved + 1 /\ UNCHANGED jWrong
           ELSE IF guess # <<>>
           THEN jWrong' = jWrong + 1 /\ UNCHANGED jSolved
           ELSE UNCHANGED <<jSolved, jWrong>>
    /\ jShown' = IF jIdx' # jIdx THEN Append(jShown, current'[1].answer) ELSE jShown

\* the one-second interval, live while not over
JumbleTick ==
    /\ JumbleOnly
    /\ jMounted
    /\ ~jGameOver
    /\ timerTick_j
    /\ UNCHANGED <<jSolved, jWrong, jShown>>

\* Retry, in the game-over overlay
JumbleRetry ==
    /\ JumbleOnly
    /\ jMounted
    /\ jGameOver
    /\ \E order \in shuffle(Len(WORDS)) : handleRetry_j(order)
    /\ jSolved' = 0
    /\ jWrong' = 0
    /\ jShown' = <<current'[1].answer>>

JumbleNext ==
    \/ JumbleType
    \/ JumbleSubmit
    \/ JumbleTick
    \/ JumbleRetry

---------------------------------------------------------------------------

(* The countdown effect of every game, with its intervals made explicit *)

\* GrammarDetective.tsx, part_000, part_001, JumbledWords.tsx, part_002 (SurvivalMode),
\* part_003 .. part_006
CountdownGames == {"GD", "P0", "P1", "JW", "SM", "B3", "B4", "B5", "B6"}

\* the games with a button that ends the session early: Submit (GD, P0, P1),
\* a wrong option (SM)
EarlyEndGames == {"GD", "P0", "P1", "SM"}

\* the games whose Reset / Retry button is also there while the round runs
RunningResetGames == {"GD", "P0", "P1", "B5", "B6"}

\* the intervals one run creates
MaxIntervals == 5

\* an effect cleanup that clears nothing
clearInterval_forgotten(live, id) == live

\* clearInterval(id): a no-op when id is no live interval
clearInterval(live, id) == live \ {id}

\* whether a dependency of the timer effect differs between two renders:
\* [index, gameOver] in SurvivalMode, [ended] / [gameOver] / [over] elsewhere
depsChanged(over0, index0, over1, index1) ==
    over0 # over1 \/ (cGame = "SM" /\ index0 # index1)

\* the timer effect after a render in which the terminal flag is over1 and
\* the index is index1, live being the intervals the handler left and ready
\* those of them that are due: if a dependency changed, the previous run's
\* cleanup clears its interval and, unless the session is terminal,
\* setInterval makes a new one
timerEffect(live, ready, over1, index1) ==
    IF ~depsChanged(cOver, cIndex, over1, index1)
    THEN /\ cLive' = live
         /\ cReady' = ready \cap live
         /\ UNCHANGED <<cEffectId, cNextId>>
    ELSE LET cleaned == clearInterval(live, cEffectId)
         IN  IF over1
             THEN /\ cLive' = cleaned
                  /\ cReady' = ready \cap cleaned
                  /\ cEffectId' = (IF cGame = "SM" THEN cEffectId ELSE 0)
                  /\ UNCHANGED cNextId
             ELSE /\ cLive' = cleaned \cup {cNextId}
                  /\ cReady' = ready \cap cleaned
                  /\ cEffectId' = cNextId
                  /\ cNextId' = cNextId + 1

\* the interval callback of interval id: the updater of setTimeLeft
intervalCallback(id) ==
    /\ IF cTime <= 1
       THEN /\ cTime' = 0
            /\ cOver' = TRUE
            /\ timerEffect(clearInterval(cLive, IF cGame = "SM" THEN cEffectId ELSE id),
                           cReady \ {id}, TRUE, cIndex)
       ELSE /\ cTime' = cTime - 1
            /\ UNCHANGED cOver
            /\ timerEffect(cLive, cReady \ {id}, cOver, cIndex)
    /\ cDrops' = cDrops + (cTime - cTime')
    /\ UNCHANGED <<cGame, cMounted, cIndex>>

CountdownOnly == UNCHANGED <<varsPure, varsLoc, varsRack, varsGame, varsBattle, varsSurvival, varsJumble,
                             varsTutor>>

\* the state after the first render and its effects: one interval, made at mount
CountdownMounted ==
    /\ cGame \in CountdownGames
    /\ cMounted = TRUE
    /\ cTime = RoundSeconds
    /\ cOver = FALSE
    /\ cIndex = 0
    /\ cLive = {1}
    /\ cEffectId = 1
    /\ cNextId = 2
    /\ cReady = {}
    /\ cDrops = 0

\* a live interval whose second has elapsed fires
IntervalFires ==
    /\ CountdownOnly
    /\ \E id \in cReady : intervalCallback(id)

\* a second of wall-clock time has passed: every live interval is due once
SecondPasses ==
    /\ CountdownOnly
    /\ cGame # "none"
    /\ cReady' = cLive
    /\ cDrops' = 0
    /\ UNCHANGED <<cGame, cMounted, cTime, cOver, cIndex, cLive, cEffectId, cNextId>>

\* Submit (GD, part_000, part_001) or a wrong option (SurvivalMode)
EndEarly ==
    /\ CountdownOnly
    /\ cMounted
    /\ cGame \in EarlyEndGames
    /\ ~cOver
    /\ cOver' = TRUE
    /\ timerEffect(cLive, cReady, TRUE, cIndex)
    /\ UNCHANGED <<cGame, cMounted, cTime, cIndex, cDrops>>

\* Reset / Retry: the time is the initial one again, the terminal flag is cleared
ResetOrRetry ==
    /\ CountdownOnly
    /\ cMounted
    /\ cOver \/ cGame \in RunningResetGames
    /\ cNextId <= MaxIntervals
    /\ cTime' = RoundSeconds
    /\ cOver' = FALSE
    /\ cIndex' = 0
    /\ timerEffect(cLive, cReady, FALSE, 0)
    /\ UNCHANGED <<cGame, cMounted, cDrops>>

\* SurvivalMode: a correct option moves to the next question
NextQuestion ==
    /\ CountdownOnly
    /\ cMounted
    /\ cGame = "SM"
    /\ ~cOver
    /\ cNextId <= MaxIntervals
    /\ LET nextIdx == cIndex + 1
           idx == IF nextIdx >= Len(questions) THEN Len(questions) - 3 ELSE nextIdx
       IN  /\ cIndex' = idx
           /\ cTime' = RoundSeconds
           /\ timerEffect(cLive, cReady, cOver, idx)
    /\ UNCHANGED <<cGame, cMounted, cOver, cDrops>>

\* part_001: Close in the results overlay, setEnded(false)
CloseOverlay ==
    /\ CountdownOnly
    /\ cMounted
    /\ cGame = "P1"
    /\ cOver
    /\ cNextId <= MaxIntervals
    /\ cOver' = FALSE
    /\ timerEffect(cLive, cReady, FALSE, cIndex)
    /\ UNCHANGED <<cGame, cMounted, cTime, cIndex, cDrops>>

\* the component is unmounted: the last effect run's cleanup runs
Unmount ==
    /\ CountdownOnly
    /\ cMounted
    /\ cMounted' = FALSE
    /\ cLive' = clearInterval(cLive, cEffectId)
    /\ cReady' = cReady \cap cLive'
    /\ UNCHANGED <<cGame, cTime, cOver, cIndex, cEffectId, cNextId, cDrops>>

CountdownNext ==
    \/ IntervalFires
    \/ SecondPasses
    \/ EndEarly
    \/ ResetOrRetry
    \/ NextQuestion
    \/ CloseOverlay
    \/ Unmount

---------------------------------------------------------------------------
(* The pure functions of the games, applied to bounded arguments *)

PureOnly == UNCHANGED <<varsLoc, varsRack, varsGame, varsArcade>>

\* records one result under the name of the function applied
Apply(name, result) ==
    /\ name \notin DOMAIN uOut
    /\ uOut' = (name :> result) @@ uOut
    /\ UNCHANGED uIn

APOSTROPHES == {"'", "U+2019", "U+2018"}

\* s and t differ at most in which apostrophe stands at a position
ApostropheAlike(s, t) ==
    /\ Len(s) = Len(t)
    /\ \A i \in 1..Len(s) : s[i] = t[i] \/ (s[i] \in APOSTROPHES /\ t[i] \in APOSTROPHES)

Doesnt(q) == <<"d", "o", "e", "s", "n", q, "t">>

KeyTexts ==
    {w \in SeqsUpTo({"n", "T"} \cup APOSTROPHES, MaxWordLen) : w # <<>>}
        \cup {Doesnt(q) : q \in APOSTROPHES}

\* the key under which a typed answer and the expected one are compared
answerKey(v, s) ==
    CASE v = "GD" -> normalize(s)
      [] v = "P0" -> normalizeToken(trim(s))
      [] v = "P1" -> toLowerCase(trim(s))

KeysStart ==
    /\ uIn \in {[a |-> s, b |-> t] : <<s, t>> \in
                    {p \in KeyTexts \X KeyTexts : ApostropheAlike(p[1], p[2])}}
    /\ uOut = <<>>

\* the phrase matcher of part_000 keys both texts
KeyTokens ==
    /\ PureOnly
    /\ Apply("normalizeToken", <<normalizeToken(uIn.a), normalizeToken(uIn.b)>>)

\* submitEdit of a variant keys the typed text and the answer
KeyAnswers ==
    /\ PureOnly
    /\ \E v \in {"GD", "P0", "P1"} :
          Apply(v, <<answerKey(v, uIn.a), answerKey(v, uIn.b)>>)

KeysNext == KeyTokens \/ KeyAnswers

\* the tokenizers, on every short text of letters, spaces and tabs
TokenTexts == SeqsUpTo({"a", "b", " ", "\t"}, MaxWordLen)

TokensStart ==
    /\ uIn \in TokenTexts
    /\ uOut = <<>>

\* GrammarDetective tokenizes its passage; the token texts are kept
RunTokenize ==
    /\ PureOnly
    /\ Apply("tokenize", tokenize(uIn))

\* initGame of part_000 splits its passage
RunSplitTokens ==
    /\ PureOnly
    /\ Apply("splitTokens", splitTokens(uIn))

TokensNext == RunTokenize \/ RunSplitTokens

\* buildRack of part_003, part_004 and part_006, one random draw per step

RACK_SIZE(v) == IF v = "B3" THEN 6 ELSE 7

VOWELS == {"a", "e", "i", "o", "u"}

\* the letters a rack is drawn from
LETTER_POOL(v) ==
    LET letters(str) == {SubSeq(str, i, i) : i \in 1..Len(str)}
    IN  CASE v = "B3" -> {"a", "c", "d", "e", "g", "m", "n", "o", "p", "r", "s", "t"}
          [] v = "B4" -> letters("aaaaaeeeeiiiioooouu")
                             \cup letters("bbccddffgghhjkllmmnnppqrrsssttttvvwwxxyz")
          [] v = "B6" -> letters("aaaaaeeeiiiooouu")
                             \cup letters("bbccddfghhjkllmmnnppqrrsssttttvvwwxxyz")

\* the vowels the fix-up loop writes
FixUpVowels(v) == IF v = "B3" THEN {"a", "e", "o"} ELSE VOWELS

\* the letters the first loop is let draw here: one vowel, two consonants
DrawnLetters == {"a", "s", "t"}

vowelCount(rack) == Cardinality({i \in 1..Len(rack) : rack[i] \in VOWELS})

BuildRackStart ==
    /\ uIn \in {"B3", "B4", "B6"}
    /\ uOut = [pc |-> "push", rack |-> <<>>, i |-> 0]

\* for (i < size) rack.push(pool[randInt(pool.length)]); after the last
\* push the vowels are counted and the fix-up loop starts at i = vowelCount
PushLetter ==
    /\ PureOnly
    /\ uOut.pc = "push"
    /\ \E c \in LETTER_POOL(uIn) \cap DrawnLetters :
           LET rack == Append(uOut.rack, c)
           IN  uOut' = IF Len(rack) < RACK_SIZE(uIn)
                       THEN [uOut EXCEPT !.rack = rack]
                       ELSE [pc |-> "fix", rack |-> rack, i |-> vowelCount(rack)]
    /\ UNCHANGED uIn

\* if (vowelCount < 2) for (i = vowelCount; i < 2; i++) rack[randInt(rack.length)] = a vowel
ReplaceLetter ==
    /\ PureOnly
    /\ uOut.pc = "fix"
    /\ uOut.i < 2
    /\ \E idx \in 1..Len(uOut.rack), c \in FixUpVowels(uIn) :
           uOut' = [uOut EXCEPT !.rack = [uOut.rack EXCEPT ![idx] = c], !.i = uOut.i + 1]
    /\ UNCHANGED uIn

\* return rack
ReturnRack ==
    /\ PureOnly
    /\ uOut.pc = "fix"
    /\ ~(uOut.i < 2)
    /\ uOut' = [uOut EXCEPT !.pc = "returned"]
    /\ UNCHANGED uIn

BuildRackNext == PushLetter \/ ReplaceLetter \/ ReturnRack

---------------------------------------------------------------------------

(* Specifications *)

LocInit == LocStart /\ PureIdle /\ RackIdle /\ GameIdle /\ ArcadeIdle

RackInit == RackStart /\ PureIdle /\ LocIdle /\ GameIdle /\ ArcadeIdle

GameInit == Mounted /\ PureIdle /\ LocIdle /\ RackIdle /\ ArcadeIdle

SpecLocator == LocInit /\ [][LocNext]_vars

SpecRack == RackInit /\ [][RackNext]_vars

SpecGrammar == GameInit /\ [][GameNext]_vars

BattleInit ==
    /\ BattleMounted
    /\ PureIdle /\ LocIdle /\ RackIdle /\ GameIdle
    /\ SurvivalIdle /\ JumbleIdle /\ CountdownIdle /\ TutorIdle

SpecBattles == BattleInit /\ [][BattleNext]_vars

SurvivalInit ==
    /\ SurvivalMounted
    /\ PureIdle /\ LocIdle /\ RackIdle /\ GameIdle
    /\ BattleIdle /\ JumbleIdle /\ CountdownIdle /\ TutorIdle

SpecSurvival == SurvivalInit /\ [][SurvivalNext]_vars

TutorInit ==
    /\ TutorMounted
    /\ PureIdle /\ LocIdle /\ RackIdle /\ GameIdle
    /\ BattleIdle /\ SurvivalIdle /\ JumbleIdle /\ CountdownIdle

SpecTutor == TutorInit /\ [][TutorNext]_vars

JumbleInit ==
    /\ JumbleMounted
    /\ PureIdle /\ LocIdle /\ RackIdle /\ GameIdle
    /\ BattleIdle /\ SurvivalIdle /\ CountdownIdle /\ TutorIdle

SpecJumble == JumbleInit /\ [][JumbleNext]_vars

CountdownInit ==
    /\ CountdownMounted
    /\ PureIdle /\ LocIdle /\ RackIdle /\ GameIdle
    /\ BattleIdle /\ SurvivalIdle /\ JumbleIdle /\ TutorIdle

SpecCountdown == CountdownInit /\ [][CountdownNext]_vars

\* every game of the arcade: one of them is mounted and played
GamesInit == GameInit \/ BattleInit \/ SurvivalInit \/ JumbleInit

\* the comparison keys, on pairs of texts alike up to the apostrophe variant
KeysInit ==
    /\ KeysStart
    /\ LocIdle /\ RackIdle /\ GameIdle /\ ArcadeIdle

SpecKeys == KeysInit /\ [][KeysNext]_vars

\* the tokenizers, on short texts
TokensInit ==
    /\ TokensStart
    /\ LocIdle /\ RackIdle /\ GameIdle /\ ArcadeIdle

SpecTokens == TokensInit /\ [][TokensNext]_vars

\* buildRack, over its random draws
BuildRackInit ==
    /\ BuildRackStart
    /\ LocIdle /\ RackIdle /\ GameIdle /\ ArcadeIdle

SpecBuildRack == BuildRackInit /\ [][BuildRackNext]_vars

GamesNext == GameNext \/ BattleNext \/ SurvivalNext \/ JumbleNext

SpecGames == GamesInit /\ [][GamesNext]_vars

---------------------------------------------------------------------------
(* Claims about the phrase locator *)

InBounds(spans, n) ==
    \A i \in 1..Len(spans) : 0 <= spans[i].start /\ spans[i].start + spans[i].length <= n

PairwiseDisjoint(spans) ==
    \A i, j \in 1..Len(spans) : i # j => SpanIndices(spans[i]) \cap SpanIndices(spans[j]) = {}

\* C1 (as claimed): every span of either locator lies within the token
\* sequence and no two spans of one passage share a token index.
C1_SpansInBoundsAndDisjoint ==
    /\ "GD" \in lDone =>
           /\ InBounds(lGroups, Len(tokenize(lText)))
           /\ PairwiseDisjoint(lGroups)
    /\ "P0" \in lDone =>
           /\ InBounds(lErrors, Len(splitTokens(lText)))
           /\ PairwiseDisjoint(lErrors)

\* The locator the claim describes: definitions in order, each taking the
\* lowest window that matches and touches no consumed token; the result is
\* the list of [start, length] of the located definitions, in definition order.
RECURSIVE RefLocateFrom(_, _, _, _, _)
RefLocateFrom(tokNorm, defNorm, k, consumed, out) ==
    IF k > Len(defNorm) THEN out
    ELSE LET w    == defNorm[k]
             n    == Len(w)
             hits == {i \in 0..(Len(tokNorm) - n) :
                         /\ SubSeq(tokNorm, i + 1, i + n) = w
                         /\ (i .. (i + n - 1)) \cap consumed = {}}
         IN  IF hits = {} THEN RefLocateFrom(tokNorm, defNorm, k + 1, consumed, out)
             ELSE LET i == CHOOSE x \in hits : \A y \in hits : x <= y
                  IN  RefLocateFrom(tokNorm, defNorm, k + 1,
                                    consumed \cup (i .. (i + n - 1)),
                                    Append(out, [start |-> i, length |-> n]))

RefLocate(tokNorm, defNorm) == RefLocateFrom(tokNorm, defNorm, 1, {}, <<>>)

Extent(spans) == [i \in 1..Len(spans) |-> [start |-> spans[i].start, length |-> spans[i].length]]

RECURSIVE sortById(_)
sortById(gs) ==
    IF gs = <<>> THEN <<>>
    ELSE LET rest == sortById(SubSeq(gs, 1, Len(gs) - 1))
             g    == gs[Len(gs)]
             k    == Cardinality({i \in 1..Len(rest) : rest[i].id <= g.id})
         IN  SubSeq(rest, 1, k) \o <<g>> \o SubSeq(rest, k + 1, Len(rest))

RefGD ==
    LET tks == tokenize(lText)
    IN  RefLocate([i \in 1..Len(tks) |-> normalize(stripTrailingPunct(tks[i]))],
                  [k \in 1..Len(lCorrections) |->
                      LET ws == splitSpace(lCorrections[k].wrong)
                      IN  [j \in 1..Len(ws) |-> normalize(ws[j])]])

RefP0 ==
    LET tks == splitTokens(lText)
    IN  RefLocate([i \in 1..Len(tks) |-> normalizeToken(tks[i])],
                  [k \in 1..Len(lCorrections) |->
                      LET ws == splitWs(lCorrections[k].wrong)
                      IN  [j \in 1..Len(ws) |-> normalizeToken(ws[j])]])

\* C9 (as claimed): each definition, in the order supplied, gets the lowest
\* matching window that neither starts at nor overlaps a consumed token; an
\* unlocated definition yields no span and leaves the others as they are.
C9_LowestFreeWindowInOrder ==
    /\ "GD" \in lDone => Extent(sortById(lGroups)) = RefGD
    /\ "P0" \in lDone => Extent(lErrors) = RefP0

---------------------------------------------------------------------------
(* Claims about the word-rack validators *)

Occurrences(letters, c) == Cardinality({i \in 1..Len(letters) : letters[i] = c})

Contained(word, rack) ==
    \A c \in {word[i] : i \in 1..Len(word)} : Occurrences(word, c) <= Occurrences(rack, c)

\* C8: canFormWord (part_003, part_004, part_006) and lettersFit (part_005)
\* each answer true exactly when every letter occurs in the candidate at most
\* as often as in the rack, so the four agree.
C8_FormableIffContained ==
    rDone => \A k \in 1..4 : rVerdict[k] = Contained(rWord, rRack)

\* the worked example: "cattt" is refused on the rack c a t t o, by all four
C8_Witness ==
    /\ rDone
    /\ rRack = ExampleRack
    /\ rWord = <<"c", "a", "t", "t", "t">>
    /\ rVerdict = <<FALSE, FALSE, FALSE, FALSE>>

---------------------------------------------------------------------------
(* Claims about the grammar-correction games *)

\* the status the game shows for a span; part_000 keeps "pending" | "correct"
\* and shows a span as wrong when it has a non-empty lastAttempt
StatusOf(id) ==
    IF variant = "P0"
    THEN LET e == errors[errorIndex(id)]
         IN  IF e.status = "correct" THEN "correct"
             ELSE IF e.lastAttempt # Undefined /\ e.lastAttempt # <<>> THEN "wrong"
             ELSE "pending"
    ELSE statuses[id]

AllStatuses == [id \in SpanIds |-> StatusOf(id)]

\* the text in the open editor
CurrentText == IF variant = "P0" THEN inputValue ELSE Get(edits, editingId, <<>>)

\* the attempt the game has on record for a span
LastAttemptOf(id) ==
    IF variant = "P0" THEN errors[errorIndex(id)].lastAttempt ELSE Get(edits, id, Undefined)

\* equality up to letter case and punctuation, as the claims word it
ClaimKey(s) ==
    toLowerCase(SelectSeq(trim(s), LAMBDA c : c \notin {".", ",", "!", "?", ";", ":"}))

NewRoundStep == PressReset \/ PressRetry

CorrectSpans == {id \in SpanIds : StatusOf(id) = "correct"}

\* C2 (as claimed): while the session is terminal no event changes the score
\* or a span's status.
C2_TerminalBlocksScoring ==
    [][(ended /\ ended') => (score' = score /\ AllStatuses' = AllStatuses)]_vars

\* C3: within a round a corrected span stays corrected and is never the one
\* being edited, every rise of the score is the +20 of exactly one span
\* turning correct, and every span turning correct (from pending or from
\* wrong) is paid +20.
C3_AwardedOncePerSpan ==
    [][~NewRoundStep =>
         /\ \A id \in SpanIds : StatusOf(id) = "correct" => StatusOf(id)' = "correct"
         /\ \A id \in SpanIds : editingId' = id => StatusOf(id)' # "correct"
         /\ \A id \in SpanIds :
                (StatusOf(id) # "correct" /\ StatusOf(id)' = "correct") => score' = score + 20
         /\ score' > score =>
                /\ score' = score + 20
                /\ Cardinality({id \in SpanIds :
                       StatusOf(id) # "correct" /\ StatusOf(id)' = "correct"}) = 1]_vars

\* the one span of the second part_000 passage was answered wrongly once and
\* then correctly: 20 - 5
C3_Witness ==
    /\ variant = "P0"
    /\ passageIndex = 1
    /\ wrongSubmissions = 1
    /\ CorrectSpans = SpanIds
    /\ score = 15

\* C4 (as claimed): the remaining time stays in [0, N], a tick takes exactly
\* one second off and ends the session exactly when it reaches 0, and a
\* terminal session leaves the terminal state through reset / retry only.
C4_CountdownEndsOnce ==
    [][/\ secondsLeft' \in 0..RoundSeconds
       /\ Tick => (secondsLeft' = secondsLeft - 1 /\ (ended' <=> secondsLeft' = 0))
       /\ (ended /\ ~ended') => NewRoundStep]_vars

\* C5 (as claimed): submitting, to a pending or wrong span, a text equal to
\* the answer up to letter case and punctuation makes the span correct and
\* adds exactly 20.
C5_AnswerUpToCaseAndPunctuation ==
    [][\A id \in SpanIds :
          (/\ SubmitOpenEditor
           /\ editingId = id
           /\ StatusOf(id) \in {"pending", "wrong"}
           /\ ClaimKey(CurrentText) = ClaimKey(RightOf(id)))
          => (StatusOf(id)' = "correct" /\ score' = score + 20)]_vars

\* C6 (as claimed): submitting a non-empty text that differs from the answer
\* after normalization marks the span wrong, takes exactly 5 off and keeps
\* that span in edit mode.
C6_WrongKeepsEditing ==
    [][\A id \in SpanIds :
          (/\ SubmitOpenEditor
           /\ editingId = id
           /\ trim(CurrentText) # <<>>
           /\ ClaimKey(CurrentText) # ClaimKey(RightOf(id)))
          => (/\ StatusOf(id)' = "wrong"
              /\ score' = score - 5
              /\ editingId' = id)]_vars

\* C7 (as claimed): the score is 20 per corrected span less 5 per incorrect
\* (non-empty, rejected) submission of the round.
C7_ScoreFormula ==
    variant # "none" => score = 20 * Cardinality(CorrectSpans) - 5 * wrongSubmissions

\* C10 (as claimed): submitting empty or whitespace-only text leaves the
\* span's status, its recorded attempt, the score and the editor as they were.
C10_EmptySubmitIsNoOp ==
    [][\A id \in SpanIds :
          (/\ SubmitOpenEditor
           /\ editingId = id
           /\ trim(CurrentText) = <<>>)
          => (/\ StatusOf(id)' = StatusOf(id)
              /\ LastAttemptOf(id)' = LastAttemptOf(id)
              /\ score' = score
              /\ editingId' = editingId)]_vars

C12_EditorOnlyWhileRunning ==
    editingId # NoId =>
        /\ ~ended
        /\ editingId \in SpanIds
        /\ StatusOf(editingId) # "correct"

---------------------------------------------------------------------------
(* Claims about the WordBattles games *)

\* the word a submission is judged on
Guess == IF bVariant = "B5" THEN normalizeInput(bInput) ELSE toLowerCase(trim(bInput))

\* the words taken so far (part_003: by the player or the bot)
TakenWords ==
    {bFound[i] : i \in 1..Len(bFound)} \cup {botWords[i] : i \in 1..Len(botWords)}

\* the rejection classes: empty, short, used, unknown, not formable
Refusable ==
    \/ Len(Guess) < 3
    \/ Guess \in TakenWords
    \/ Guess \notin dict(bVariant) /\ ~(extendedDict = "loaded" /\ Guess \in WordsDictionaryJson)
    \/ ~Contained(Guess, bRack)

\* C14: a refused submission leaves the score, the found words and the
\* running game as they are, and within a round no score ever goes down.
C14_RefusalCostsNothing ==
    [][/\ (SubmitWord /\ Refusable) =>
              /\ bScore' = bScore
              /\ bFound' = bFound
              /\ bOver' = bOver
              /\ bTimeLeft' = bTimeLeft
              /\ botScore' = botScore
              /\ botWords' = botWords
       /\ ~BattleRetry => (bScore' >= bScore /\ botScore' >= botScore)]_vars

\* part_003: "cat", worth 5, was found and then refused as already used
C14_Witness ==
    /\ bVariant = "B3"
    /\ bMsg = "Already used!"
    /\ bFound = <<w_cat>>
    /\ bScore = 5

\* the tier value of a word length, as the claim lists it
TierValue(v, len) ==
    IF len >= 6 THEN (IF v = "B4" THEN 40 ELSE 30)
    ELSE IF len = 5 THEN 20 ELSE IF len = 4 THEN 10 ELSE 5

RECURSIVE TierSum(_, _)
TierSum(v, ws) == IF ws = <<>> THEN 0 ELSE TierValue(v, Len(Head(ws))) + TierSum(v, Tail(ws))

\* C15: the score is the sum of the tier values of the found words, and the
\* bot's score that of the bot's words.
C15_ScoreIsTierSum ==
    bVariant # "none" =>
        /\ bScore = TierSum(bVariant, bFound)
        /\ botScore = TierSum(bVariant, botWords)

\* part_004 after "school", which pays the 40 of that game
C15_Witness ==
    /\ bVariant = "B4"
    /\ bFound = <<w_school>>
    /\ bScore = 40
    /\ botScore = TierSum("B4", botWords)

\* C16: in part_005 a word of three letters or more that is in the built-in
\* bank, fits the rack and is not yet found is accepted whatever the state of
\* the fetch, and unless the fetch has loaded only bank words are accepted.
C16_FetchNeverBlocks ==
    [][(SubmitWord /\ bVariant = "B5" /\ ~bOver) =>
          /\ (/\ Len(Guess) >= 3
              /\ Guess \in EASY_WORD_BANK_5
              /\ Contained(Guess, bRack)
              /\ Guess \notin TakenWords)
             => (/\ bFound' = <<Guess>> \o bFound
                 /\ bScore' = bScore + TierValue("B5", Len(Guess)))
          /\ (extendedDict # "loaded" /\ Guess \notin EASY_WORD_BANK_5)
             => (bFound' = bFound /\ bScore' = bScore)]_vars

\* "cat" accepted while the fetch is still pending
C16_Witness ==
    /\ bVariant = "B5"
    /\ extendedDict = "pending"
    /\ bFound = <<w_cat>>
    /\ bScore = 5

\* C17 (as claimed): a feedback timeout scheduled before a reset does not
\* change the feedback of the session after it.
C17_StaleTimeoutIsHarmless ==
    [][(FeedbackTimeout /\ bTimeouts[1].stale) => bMsg' = bMsg]_vars

---------------------------------------------------------------------------
(* Claims about SurvivalMode *)

\* C19: in SurvivalMode the stored best score is written only at a game over
\* whose final score exceeds the best known value, and then with that score;
\* the stored value never decreases; and after every game over, by a wrong
\* answer or by time-out, the displayed best and the stored value both equal
\* the larger of the value read at the start and all final scores so far.
C19_BestIsRunningMaximum ==
    [][/\ sStored' # sStored =>
            /\ ~sGameOver /\ sGameOver'
            /\ sScore > sBest
            /\ sStored' = Item(numberToString(sScore))
       /\ readHighScore(sStored') >= readHighScore(sStored)
       /\ (~sGameOver /\ sGameOver') =>
            /\ sBest' = sKnownMax'
            /\ readHighScore(sStored') = sKnownMax'
            /\ sKnownMax' = Max2(sKnownMax, sScore)]_vars

\* a game that ran out of time after two correct answers, with less than 100
\* stored before: 100 is stored and displayed
C19_Witness ==
    /\ sGameOver
    /\ sTimeLeft = 0
    /\ sScore = 100
    /\ sBest = 100
    /\ sStored = Item(<<"1", "0", "0">>)
    /\ sIndex = 2

---------------------------------------------------------------------------
(* Claims about VirtualTutor *)

\* C20 (as claimed): no UI path of VirtualTutor invokes the widget's
\* startConversation or sendMessage while isAgentReady is false.
C20_WidgetCallsOnlyWhenReady == \A c \in tCalls : c.ready

---------------------------------------------------------------------------
(* Claims about all games *)

\* the state a round of each game starts in
FreshGrammar ==
    /\ secondsLeft = RoundSeconds
    /\ ~ended
    /\ score = 0
    /\ editingId = NoId
    /\ \A id \in SpanIds : StatusOf(id) = "pending"

FreshBattle ==
    /\ bTimeLeft = TOTAL_TIME_b(bVariant)
    /\ ~bOver
    /\ bScore = 0
    /\ bFound = <<>>
    /\ botScore = 0
    /\ botWords = <<>>

FreshSurvival ==
    /\ sTimeLeft = RoundSeconds
    /\ ~sGameOver
    /\ sScore = 0
    /\ sIndex = 0

FreshJumble ==
    /\ jTimeLeft = RoundSeconds
    /\ ~jGameOver
    /\ jScore = 0
    /\ jIdx = 0

\* C13: in every game a reset or retry, from a running or a terminal state,
\* yields a fresh round (full time, not terminal, score 0, every span pending
\* or the found lists empty, no editor open), and the countdown then takes one
\* second off per tick and ends the round only when it takes the last one.
C13_ResetStartsFreshRound ==
    [][/\ (PressReset \/ PressRetry) => FreshGrammar'
       /\ BattleRetry => FreshBattle'
       /\ SurvivalRetry => FreshSurvival'
       /\ JumbleRetry => FreshJumble'
       /\ (Tick /\ secondsLeft >= 1) =>
            (secondsLeft' = secondsLeft - 1 /\ (ended' <=> secondsLeft' = 0))
       /\ BattleTick => (bTimeLeft' = bTimeLeft - 1 /\ (bOver' <=> bTimeLeft' = 0))
       /\ SurvivalTick => (sTimeLeft' = sTimeLeft - 1 /\ (sGameOver' <=> sTimeLeft' = 0))
       /\ JumbleTick => (jTimeLeft' = jTimeLeft - 1 /\ (jGameOver' <=> jTimeLeft' = 0))]_vars

\* part_005 right after the footer's Retry, pressed after a submission: the
\* round is fresh, and the timeout of the last feedback is still queued
C13_Witness ==
    /\ bVariant = "B5"
    /\ FreshBattle
    /\ bInput = <<>>
    /\ Len(bTimeouts) = 1
    /\ bTimeouts[1].stale
    /\ attemptLog = <<>>

---------------------------------------------------------------------------
(* Claims about the countdown intervals *)

\* C18: in every game at most one countdown interval is live, and none while
\* the session is terminal or the component is unmounted; so the remaining
\* time does not change while the session is terminal, and it drops by at
\* most 1 within a second, also after a reset, a retry or a question change.
C18_OneIntervalWhileRunning ==
    [][/\ Cardinality(cLive') <= 1
       /\ (cOver' \/ ~cMounted') => cLive' = {}
       /\ (cOver /\ cOver') => cTime' = cTime
       /\ cDrops' <= 1]_vars

\* SurvivalMode, second question: the interval made at mount is cleared, the
\* one made for this question is the only one and has fired once
C18_Witness ==
    /\ cGame = "SM"
    /\ cIndex = 1
    /\ cLive = {2}
    /\ cTime = RoundSeconds - 1
    /\ cDrops = 1
    /\ ~cOver


\* C21: the readiness poll of VirtualTutor always stops. A check runs only
\* while the component is mounted, before the 21st check has run, and before
\* either outcome; the flag is set exactly by a check that sees the handle,
\* the give-up notice is issued exactly by the 21st check when it sees none,
\* never both; either outcome and unmount stop the poll.
C21_PollStops ==
    [][/\ PollFires =>
            /\ tMounted /\ ~tReady /\ "Agent not responding" \notin tToasts
            /\ tAttempts < POLL_LIMIT + 1
            /\ tAttempts' = tAttempts + 1
            /\ tReady' <=> tAgent
            /\ "Agent not responding" \in tToasts' <=> (~tAgent /\ tAttempts' = POLL_LIMIT + 1)
       /\ (tReady' /\ "Agent not responding" \in tToasts') => FALSE
       /\ (tReady' # tReady \/ ("Agent not responding" \in tToasts') #
                                ("Agent not responding" \in tToasts)) => PollFires
       /\ (tReady' \/ "Agent not responding" \in tToasts' \/ ~tMounted') => ~tPolling'
       /\ tAttempts' <= POLL_LIMIT + 1]_vars

\* the 21st check saw no handle: the notice is out and the poll is off, and
\* the script that loaded afterwards changes nothing
C21_Witness ==
    /\ tAttempts = POLL_LIMIT + 1
    /\ "Agent not responding" \in tToasts
    /\ ~tReady
    /\ ~tPolling
    /\ tAgent
    /\ tMounted


\* C22: two texts that differ only in which apostrophe they use (ASCII ',
\* U+2019, U+2018) get the same comparison key, in the phrase matcher and in
\* the answer comparison of every grammar variant.
C22_ApostropheBlind ==
    \A name \in DOMAIN uOut : uOut[name][1] = uOut[name][2]

\* C22, on the spec's example: "doesn't" typed with any apostrophe is
\* accepted by GrammarDetective, whose answer is written with the ASCII one.
C22_DoesntAccepted ==
    (/\ "GD" \in DOMAIN uOut
     /\ uIn.a \in {Doesnt(q) : q \in APOSTROPHES}) => uOut["GD"][1] = uOut["GD"][2]


\* the maximal runs of non-whitespace characters of s, in order
WordRuns(s) ==
    LET t == trim(collapseWs(s))
    IN  IF t = <<>> THEN <<>> ELSE splitSpace(t)

\* C23: each tokenizer returns one token per whitespace-delimited run of the
\* text, in order: the empty text gives no token, and no token is empty or
\* contains whitespace.
C23_TokensAreRuns ==
    \A name \in DOMAIN uOut :
        /\ uOut[name] = WordRuns(uIn)
        /\ \A i \in 1..Len(uOut[name]) :
               /\ uOut[name][i] # <<>>
               /\ \A k \in 1..Len(uOut[name][i]) : uOut[name][i][k] \notin WS

\* C23, its second sentence alone: the empty text has no token
C23_EmptyTextNoToken ==
    \A name \in DOMAIN uOut : uIn = <<>> => uOut[name] = <<>>


\* the locator input is passage p of GrammarDetective / of part_000
IsPassage(p) == lText = BuiltInPassages[p].text /\ lCorrections = BuiltInPassages[p].corrections

IsPassage_0(p) == lText = BuiltInPassages_0[p].text /\ lCorrections = BuiltInPassages_0[p].mistakes

\* spans locate every correction: as many spans as corrections, each
\* correction's span covering its wrong words in the text, no two overlapping
LocatesAll(spans, answerOf(_), key(_)) ==
    LET tks == splitSpace(lText)
    IN  /\ Len(spans) = Len(lCorrections)
        /\ InBounds(spans, Len(tks))
        /\ PairwiseDisjoint(spans)
        /\ \A k \in 1..Len(lCorrections) :
               \E i \in 1..Len(spans) :
                   LET words == splitSpace(lCorrections[k].wrong)
                   IN  /\ answerOf(spans[i]) = lCorrections[k].right
                       /\ spans[i].length = Len(words)
                       /\ \A j \in 1..Len(words) :
                              key(tks[spans[i].start + j]) = key(words[j])

\* C24: on each of the five built-in passages, of GrammarDetective and of
\* part_000, every listed correction is located: as many spans as
\* corrections, pairwise disjoint; in the first passage go -> went is the
\* span at token 1 of length 1 with answer "went".
C24_BuiltInPassagesLocated ==
    /\ \A p \in 1..Len(BuiltInPassages) :
           (IsPassage(p) /\ "GD" \in lDone) =>
               /\ LocatesAll(lGroups, LAMBDA g : g.right,
                             LAMBDA w : normalizeToken(w))
               /\ p = 1 => \E i \in 1..Len(lGroups) :
                               /\ lGroups[i].start = 1 /\ lGroups[i].length = 1
                               /\ lGroups[i].right = <<"w", "e", "n", "t">>
    /\ \A p \in 1..Len(BuiltInPassages_0) :
           (IsPassage_0(p) /\ "P0" \in lDone) =>
               /\ LocatesAll(lErrors, LAMBDA e : e.correct,
                             LAMBDA w : normalizeToken(w))
               /\ p = 1 => \E i \in 1..Len(lErrors) :
                               /\ lErrors[i].start = 1 /\ lErrors[i].length = 1
                               /\ lErrors[i].correct = <<"w", "e", "n", "t">>

\* the fourth passage, with its three-word correction "too much long", has
\* been through both locators: three spans each
C24_Witness ==
    /\ IsPassage(4)
    /\ lDone = {"GD", "P0"}
    /\ Len(lGroups) = 3
    /\ Len(lErrors) = 3
    /\ \E i \in 1..3 : lGroups[i].length = 3


\* C25: for every random outcome buildRack returns exactly RACK_SIZE letters,
\* each from its pool, at least two of them vowels.
C25_RackHasTwoVowels ==
    uOut.pc = "returned" =>
        /\ Len(uOut.rack) = RACK_SIZE(uIn)
        /\ \A i \in 1..Len(uOut.rack) : uOut.rack[i] \in LETTER_POOL(uIn)
        /\ vowelCount(uOut.rack) >= 2


\* the bank words the bot could play now (part_003)
BotCandidates ==
    {w \in EASY_WORD_BANK :
        /\ Len(w) >= 3
        /\ w \notin {bFound[i] : i \in 1..Len(bFound)} \cup {botWords[i] : i \in 1..Len(botWords)}
        /\ canFormWord(w, bRack)}

\* C26: in part_003, while the game is not over and the bot has a word to
\* play, no more ticks than fall inside one bot interval pass since the round
\* began or the bot last played, whatever the player submits in between.
C26_BotPlaysEveryInterval ==
    (bVariant = "B3" /\ ~bOver /\ BotCandidates # {}) => botIdle <= BotMaxTicks


---------------------------------------------------------------------------
(* Claims about SurvivalMode *)

\* C27: SurvivalMode gives one life and PER_QUESTION_TIME seconds a question.
\* The game is over exactly when a wrong option has been selected or that many
\* ticks have passed on the current question; every correct selection adds 50
\* and puts the countdown back to full, so the score is 50 times the correct
\* selections of the round and the countdown is what the ticks have left.
C27_OneLifeTenSeconds ==
    sMounted =>
        /\ sGameOver <=> (sWrong \/ sElapsed >= RoundSeconds)
        /\ sScore = 50 * sCorrect
        /\ sTimeLeft = RoundSeconds - sElapsed

\* two correct selections, then the third question timed out
C27_Witness ==
    /\ sMounted
    /\ sGameOver
    /\ ~sWrong
    /\ sCorrect = 2
    /\ sScore = 100
    /\ sElapsed = RoundSeconds


\* C28: the question index stays within [0, n - 1]; the questions are in
\* non-decreasing difficulty, and a correct answer moves to the next one,
\* except on the last, where it moves to the third from last: once every
\* question has been answered, play stays on the three hardest.
C28_IndexCyclesOverHardest ==
    [][LET n == Len(questions)
       IN  /\ sMounted' => sIndex' \in 0..(n - 1)
           /\ \A i \in 1..(n - 1) : questions[i].difficulty <= questions[i + 1].difficulty
           /\ sCorrect' = sCorrect + 1 =>
                  sIndex' = IF sIndex = n - 1 THEN n - 3 ELSE sIndex + 1
           /\ sCorrect' # sCorrect + 1 => (sIndex' = sIndex \/ sIndex' = 0)
           /\ sCorrect' >= n - 1 => sIndex' >= n - 3]_vars

\* the seventh correct answer, given to the last question, has led back to
\* the third from last
C28_Witness ==
    /\ sMounted
    /\ sCorrect = Len(questions)
    /\ sIndex = Len(questions) - 3
    /\ ~sGameOver


---------------------------------------------------------------------------
(* Claims about the found lists of WordBattles *)

NoDuplicate(ws) == \A i, j \in 1..Len(ws) : i # j => ws[i] # ws[j]

\* C29: in every WordBattles variant no word is accepted twice in a round:
\* the found list has no duplicate, and in the bot variant no word is in both
\* the player's and the bot's list or twice in either, whatever the order of
\* submissions, bot plays and ticks.
C29_NoWordTwice ==
    /\ NoDuplicate(bFound)
    /\ NoDuplicate(botWords)
    /\ {bFound[i] : i \in 1..Len(bFound)} \cap {botWords[i] : i \in 1..Len(botWords)} = {}

\* part_003: the player and the bot have each played a word, and the player
\* has just been refused a word already taken
C29_Witness ==
    /\ bVariant = "B3"
    /\ bFound # <<>>
    /\ botWords # <<>>
    /\ bMsg = "Already used!"


\* the dictionary a WordBattles variant accepts words from, as it is now
DictionaryInForce ==
    IF bVariant = "B5"
    THEN dict("B5") \cup (IF extendedDict = "loaded" THEN WordsDictionaryJson ELSE {})
    ELSE dict(bVariant)

\* C30: in every WordBattles variant every word of a found list has at least
\* 3 letters, is in the dictionary in force and can be formed from the rack
\* now displayed.
C30_FoundWordsFitRack ==
    bVariant # "none" =>
        \A w \in {bFound[i] : i \in 1..Len(bFound)} \cup {botWords[i] : i \in 1..Len(botWords)} :
            /\ Len(w) >= 3
            /\ w \in DictionaryInForce
            /\ canFormWord(w, bRack)


---------------------------------------------------------------------------
(* Claims about JumbledWords *)

\* C31: in JumbledWords a guess equal to the current answer (trimmed, case
\* ignored) adds 25, moves to the next word and clears the input; a non-empty
\* wrong guess takes 5 and keeps the word; an empty guess changes nothing; so
\* the score is always 25 times the words solved this round less 5 times its
\* non-empty wrong guesses.
C31_ScoreIsSolvedLessWrong ==
    [][/\ JumbleSubmit =>
            LET guess == toLowerCase(trim(jInput))
            IN  IF guess = toLowerCase(current[1].answer)
                THEN jScore' = jScore + 25 /\ jIdx' = jIdx + 1 /\ jInput' = <<>>
                ELSE IF guess # <<>>
                THEN jScore' = jScore - 5 /\ jIdx' = jIdx /\ jOrder' = jOrder
                ELSE UNCHANGED <<jScore, jIdx, jOrder, jInput, jTimeLeft, jGameOver>>
       /\ jScore' = 25 * jSolved' - 5 * jWrong']_vars

\* one word solved and one non-empty wrong guess made: the score is 20
C31_Witness ==
    /\ jMounted
    /\ jSolved = 1
    /\ jWrong = 1
    /\ jScore = 20


\* the answers of all the words of the game
AllAnswers == {WORDS[i].answer : i \in 1..Len(WORDS)}

\* C32: whatever the random draws, the order shuffle returned is a permutation
\* of the word indices, so after mount a current word is always defined and
\* every block of as many consecutive presented words as there are words in
\* the game (the index wrapping modulo that number) holds each word exactly
\* once.
C32_EveryWordOncePerBlock ==
    jMounted =>
        /\ Len(jOrder) = Len(WORDS)
        /\ {jOrder[i] : i \in 1..Len(jOrder)} = 0..(Len(WORDS) - 1)
        /\ current # <<>>
        /\ Len(jShown) = jIdx + 1
        /\ jShown[Len(jShown)] = current[1].answer
        /\ \A k \in 1..(Len(jShown) - Len(WORDS) + 1) :
              {jShown[k + d] : d \in 0..(Len(WORDS) - 1)} = AllAnswers

\* C32 witness: a round in which the index has wrapped, the word of the
\* second block being presented after every word was solved once
C32_Witness ==
    /\ jMounted
    /\ jIdx = Len(WORDS) + 1
    /\ Len(jShown) = Len(WORDS) + 2
    /\ jShown[Len(WORDS) + 2] = jShown[2]


---------------------------------------------------------------------------
(* Claims about Retry in the multi-passage grammar games *)

\* the round state of GrammarDetective.tsx holds the passage p and nothing else
RoundOfPassage(p) ==
    LET spec == PASSAGES[p + 1]
    IN  /\ tokens = tokenize(spec.text)
        /\ Len(groups) = Len(spec.corrections)
        /\ \A k \in 1..Len(groups) :
              LET g == groups[k]
                  c == spec.corrections[g.id + 1]
              IN  /\ g.start >= 0
                  /\ g.start + g.length <= Len(tokens)
                  /\ g.right = c.right
                  /\ normalize(join([n \in 1..g.length |->
                                        stripTrailingPunct(tokens[g.start + n])]))
                         = normalize(c.wrong)
        /\ DOMAIN statuses = {groups[k].id : k \in 1..Len(groups)}
        /\ \A id \in DOMAIN statuses : statuses[id] = "pending"
        /\ edits = <<>>

\* the round state of part_000 holds the passage p and nothing else
RoundOfPassage_0(p) ==
    LET spec == PASSAGES_0[p + 1]
    IN  /\ tokens = splitTokens(spec.text)
        /\ Len(errors) = Len(spec.mistakes)
        /\ \A k \in 1..Len(errors) :
              LET e == errors[k]
                  m == spec.mistakes[k]
              IN  /\ e.start >= 0
                  /\ e.start + e.length <= Len(tokens)
                  /\ e.correct = m.right
                  /\ e.status = "pending"
                  /\ e.lastAttempt = Undefined
                  /\ e.wrongPhrase = join(SubSeq(tokens, e.start + 1, e.start + e.length))
                  /\ normalizeToken(e.wrongPhrase) = normalizeToken(m.wrong)
        /\ inputValue = <<>>

\* C33: whatever the random pick, in the state a Retry leaves the passage index
\* is in range and differs from the one replaced, and the state the round starts in
\* (tokens, spans, statuses, no edit target, score 0, full time, not ended) is
\* that of the new passage only.
C33_RetryStartsAnotherPassage ==
    retriedFrom # NoId =>
        /\ passageIndex \in 0..(PassageCount(variant) - 1)
        /\ passageIndex # retriedFrom
        /\ IF variant = "GD" THEN RoundOfPassage(passageIndex)
                             ELSE RoundOfPassage_0(passageIndex)
        /\ editingId = NoId
        /\ score = 0
        /\ secondsLeft = RoundSeconds
        /\ ended = FALSE

\* C33 witness: GrammarDetective.tsx just after a Retry pressed on its last
\* passage, whose pick wrapped round or fell on the first passage
C33_Witness ==
    /\ variant = "GD"
    /\ retriedFrom = Len(PASSAGES) - 1
    /\ passageIndex = 0
    /\ RoundOfPassage(0)
    /\ score = 0

\* C33 witness: part_000 just after a Retry pressed while its first passage
\* was being played, the last passage having been picked
C33_Witness_0 ==
    /\ variant = "P0"
    /\ retriedFrom = 0
    /\ passageIndex = Len(PASSAGES_0) - 1
    /\ RoundOfPassage_0(Len(PASSAGES_0) - 1)


---------------------------------------------------------------------------
(* Claims about the conversation of VirtualTutor.tsx *)

\* C34 (as claimed): from Reset until the user next does something, the
\* message list is the single "Conversation reset." notice: a sendMessage or
\* startConversation call made before the Reset appends nothing when it
\* completes afterwards.
C34_ResetLeavesOnlyTheNotice ==
    tSinceReset => tMessages = <<"assistant">>

\* C35 (as claimed): listening is true only while a conversation is active,
\* that is, in every reachable state listening implies isConversing.
C35_ListeningOnlyWhileConversing ==
    tListening => tConversing

===========================================================================
